---------------------------- MODULE Spec2Model ----------------------------
(***************************************************************************)
(* A model of vfstool's layered virtual file system.                       *)
(*                                                                         *)
(* Paths are sequences of bytes (integers 0..255), as Rust's OsStr is.     *)
(* The repository holds two generations of the library:                    *)
(*   "vfstool_lib" : src/vfstool_lib/src/*.rs with src/dw_vfs_lib/src/lib.rs*)
(*   "vfstool"     : src/src/lib.rs, src/src/vfs.rs (the earlier crate,    *)
(*                   which has add_directory / add_directories)            *)
(* The variable `crate` says which of the two a behaviour runs.            *)
(***************************************************************************)
EXTENDS Integers, Sequences, FiniteSets, TLC

VARIABLES
    crate,          \* which generation of the library this behaviour runs
    disk,           \* the regular files on disk: on-disk path -> content
    search_dirs,    \* from_directories' ordered data roots
    archive_list,   \* from_directories' ordered archive names
    pc,             \* position inside from_directories
    pending,        \* per root: walker entries not yet mapped by a worker
    produced,       \* per root: (key, VfsFile) pairs in worker completion order
    map,            \* from_directories' intermediate loose map
    archive_handles,\* the ArchiveList returned by archives::from_set
    file_map,       \* VFS.file_map
    norm_input,     \* the path handed to normalize_path
    norm_once,      \* normalize_path(norm_input)
    norm_twice,     \* normalize_path(normalize_path(norm_input))
    norm_step,      \* how many times normalize_path has been applied
    vfs_file,       \* the VfsFile that open() is called on
    open_result,    \* what VfsFile::open returned (or that it panicked)
    chunks,         \* Fo4FileReader.chunks: the chunks not yet taken
    current_chunk,  \* Fo4FileReader.current_chunk
    position,       \* Fo4FileReader.position
    cursor,         \* the Cursor (or file) behind the other readers: data and pos
    delivered,      \* every byte the reader has put into a buffer so far
    buf_len,        \* buf.len() of the last read
    read_ret,       \* what the last read returned
    reads,          \* the number of reads so far
    iter_order,     \* the order in which the finished file_map iterates its keys
    tree,           \* the last result of VFS::tree, with its `relative`
    filtered,       \* the last result of VFS::tree_filtered, with its arguments
    node_before,    \* the DirectoryNode that filter was called on
    node_after,     \* that node after DirectoryNode::filter
    node_pred,      \* the predicate handed to DirectoryNode::filter
    vfs_alive,      \* the VFS has not been dropped
    handle_clones,  \* per StoredArchive: the clones of its Arc a caller holds
    strong,         \* per StoredArchive: the strong count of its Arc
    released,       \* the StoredArchives that were dropped, their file closed
    DEFAULT_FILE,   \* the OnceLock of <VFS as Index>::index: None until first set
    index_arg,      \* the string the last vfs[s] was given
    index_ret       \* where the reference the last vfs[s] returned points

vars == <<crate, disk, search_dirs, archive_list, pc, pending, produced, map,
          archive_handles, file_map, norm_input, norm_once, norm_twice, norm_step,
          vfs_file, open_result, chunks, current_chunk, position, cursor,
          delivered, buf_len, read_ret, reads,
          iter_order, tree, filtered, node_before, node_after, node_pred,
          vfs_alive, handle_clones, strong, released,
          DEFAULT_FILE, index_arg, index_ret>>

vfs_vars == <<disk, search_dirs, archive_list, pc, pending, produced, map,
              archive_handles, file_map>>

norm_vars == <<norm_input, norm_once, norm_twice, norm_step>>

reader_vars == <<vfs_file, open_result, chunks, current_chunk, position, cursor,
                 delivered, buf_len, read_ret, reads>>

tree_vars == <<iter_order, tree, filtered, node_before, node_after, node_pred>>

arc_vars == <<vfs_alive, handle_clones, strong, released>>

index_vars == <<DEFAULT_FILE, index_arg, index_ret>>

not_vfs_vars == <<norm_vars, reader_vars, tree_vars, arc_vars, index_vars>>

not_norm_vars == <<vfs_vars, reader_vars, tree_vars, arc_vars, index_vars>>

not_reader_vars == <<vfs_vars, norm_vars, tree_vars, arc_vars, index_vars>>

not_tree_vars == <<vfs_vars, norm_vars, reader_vars, index_vars>>

CrateNew == "vfstool_lib"
CrateOld == "vfstool"
Crates == {CrateNew, CrateOld}

(***************************************************************************)
(* Bytes named by normalize_path.                                          *)
(***************************************************************************)
Backslash == 92
Slash == 47
UpperA == 65
UpperZ == 90
CaseOffset == 32

(***************************************************************************)
(* Bounds of the model.                                                    *)
(***************************************************************************)
MaxPathLen == 3
MaxLoose == 2

\* ------------------------------------------------------------------------
\* normalize_path, src/dw_vfs_lib/src/lib.rs: a byte-by-byte map.
\* ------------------------------------------------------------------------
normalize_byte_swapcase(byte) ==
    IF byte = Backslash THEN Slash
    ELSE IF byte >= UpperA /\ byte <= UpperZ THEN byte + CaseOffset
    ELSE IF byte >= UpperA + CaseOffset /\ byte <= UpperZ + CaseOffset
         THEN byte - CaseOffset
    ELSE byte

normalize_byte(byte) ==
    IF byte = Backslash THEN Slash
    ELSE IF byte >= UpperA /\ byte <= UpperZ THEN (byte + CaseOffset) % 256
    ELSE byte

normalize_path(path) == [i \in 1..Len(path) |-> normalize_byte(path[i])]

\* ------------------------------------------------------------------------
\* normalize_path, src/src/lib.rs:
\*   to_string_lossy().to_lowercase().replace("\\", "/")
\* A String is modelled as its sequence of Unicode code points.
\* ------------------------------------------------------------------------
\* U+FFFD, what to_string_lossy puts for each invalid UTF-8 sequence
ReplacementChar == 65533

IsCont(b) == b >= 128 /\ b <= 191

\* The second byte a UTF-8 lead byte accepts (Rust's Utf8Chunks).
SecondOk(lead, b) ==
    CASE lead = 224 -> b >= 160 /\ b <= 191
      [] lead = 237 -> b >= 128 /\ b <= 159
      [] lead = 240 -> b >= 144 /\ b <= 191
      [] lead = 244 -> b >= 128 /\ b <= 143
      [] OTHER -> IsCont(b)

RECURSIVE to_string_lossy(_)
to_string_lossy(bytes) ==
    IF bytes = <<>> THEN <<>>
    ELSE
      LET b == bytes[1]
          n == Len(bytes)
          Rest(k) == SubSeq(bytes, k + 1, n)
          Bad(k) == <<ReplacementChar>> \o to_string_lossy(Rest(k))
      IN  IF b < 128 THEN <<b>> \o to_string_lossy(Rest(1))
          ELSE IF b >= 194 /\ b <= 223 THEN
              IF n >= 2 /\ IsCont(bytes[2])
              THEN <<(b - 192) * 64 + (bytes[2] - 128)>> \o to_string_lossy(Rest(2))
              ELSE Bad(1)
          ELSE IF b >= 224 /\ b <= 239 THEN
              IF ~(n >= 2 /\ SecondOk(b, bytes[2])) THEN Bad(1)
              ELSE IF ~(n >= 3 /\ IsCont(bytes[3])) THEN Bad(2)
              ELSE <<(b - 224) * 4096 + (bytes[2] - 128) * 64 + (bytes[3] - 128)>>
                   \o to_string_lossy(Rest(3))
          ELSE IF b >= 240 /\ b <= 244 THEN
              IF ~(n >= 2 /\ SecondOk(b, bytes[2])) THEN Bad(1)
              ELSE IF ~(n >= 3 /\ IsCont(bytes[3])) THEN Bad(2)
              ELSE IF ~(n >= 4 /\ IsCont(bytes[4])) THEN Bad(3)
              ELSE <<(b - 240) * 262144 + (bytes[2] - 128) * 4096
                     + (bytes[3] - 128) * 64 + (bytes[4] - 128)>>
                   \o to_string_lossy(Rest(4))
          ELSE Bad(1)

\* char::to_lowercase on the code points below U+0100 (ASCII and Latin-1);
\* the byte alphabet of the model decodes to no cased code point beyond them.
char_to_lowercase(c) ==
    IF c >= UpperA /\ c <= UpperZ THEN c + CaseOffset
    ELSE IF c >= 192 /\ c <= 222 /\ c # 215 THEN c + CaseOffset
    ELSE c

to_lowercase(s) == [i \in 1..Len(s) |-> char_to_lowercase(s[i])]

replace_backslash(s) == [i \in 1..Len(s) |-> IF s[i] = Backslash THEN Slash ELSE s[i]]

\* The UTF-8 bytes of a String (PathBuf::from(String)).
RECURSIVE encode_utf8(_)
encode_utf8(s) ==
    IF s = <<>> THEN <<>>
    ELSE
      LET c == s[1]
          head ==
            IF c < 128 THEN <<c>>
            ELSE IF c < 2048 THEN <<192 + (c \div 64), 128 + (c % 64)>>
            ELSE IF c < 65536
                 THEN <<224 + (c \div 4096), 128 + ((c \div 64) % 64), 128 + (c % 64)>>
            ELSE <<240 + (c \div 262144), 128 + ((c \div 4096) % 64),
                   128 + ((c \div 64) % 64), 128 + (c % 64)>>
      IN  head \o encode_utf8(Tail(s))

legacy_normalize_path(path) ==
    encode_utf8(replace_backslash(to_lowercase(to_string_lossy(path))))

\* The normalize_path of the crate the behaviour runs.
crate_normalize_path(c, path) ==
    IF c = CrateNew THEN normalize_path(path) ELSE legacy_normalize_path(path)

\* ------------------------------------------------------------------------
\* Applying normalize_path to arbitrary byte paths.
\* ------------------------------------------------------------------------
\* 'A' 'a' 'Z' '\' '/' '.' then 0xC3 0x89 (the UTF-8 of U+00C9), 0xA9 and 0xFF
NormBytes == {65, 97, 90, 92, 47, 46, 195, 137, 169, 255}

RECURSIVE SeqsUpTo(_, _)
SeqsUpTo(S, n) ==
    IF n = 0 THEN {<<>>}
    ELSE LET shorter == SeqsUpTo(S, n - 1)
         IN  shorter \cup {Append(s, b) : s \in {t \in shorter : Len(t) = n - 1}, b \in S}

NormInputs == SeqsUpTo(NormBytes, MaxPathLen)

\* ------------------------------------------------------------------------
\* std::path::Path on Unix, as far as the library uses it.
\* ------------------------------------------------------------------------
RECURSIVE SplitOn(_, _, _)
\* The segments of `bytes` between separators `sep`; `cur` is the one being read.
SplitOn(bytes, sep, cur) ==
    IF bytes = <<>> THEN <<cur>>
    ELSE IF bytes[1] = sep THEN <<cur>> \o SplitOn(Tail(bytes), sep, <<>>)
    ELSE SplitOn(Tail(bytes), sep, Append(cur, bytes[1]))

\* Path::components: a leading '/' is the RootDir component (written <<47>>),
\* empty segments and "." segments are skipped, except a "." that starts a
\* relative path.
Components(path) ==
    LET segs == SplitOn(path, Slash, <<>>)
        hasRoot == path # <<>> /\ path[1] = Slash
        keep == SelectSeq(segs, LAMBDA s : s # <<>> /\ s # <<46>>)
        curDir == IF ~hasRoot /\ segs[1] = <<46>> THEN << <<46>> >> ELSE <<>>
    IN  (IF hasRoot THEN << <<Slash>> >> ELSE <<>>) \o curDir \o keep

\* PartialEq for Path / PathBuf compares components.
PathEq(a, b) == Components(a) = Components(b)

\* Path::ends_with: the components of `child` end those of `path`.
ends_with(path, child) ==
    LET cp == Components(path)
        cc == Components(child)
    IN  /\ Len(cc) <= Len(cp)
        /\ SubSeq(cp, Len(cp) - Len(cc) + 1, Len(cp)) = cc

\* Path::starts_with: the components of `base` begin those of `path`.
starts_with(path, base) ==
    LET cp == Components(path)
        cb == Components(base)
    IN  /\ Len(cb) <= Len(cp)
        /\ SubSeq(cp, 1, Len(cb)) = cb

RECURSIVE JoinComponents(_)
JoinComponents(comps) ==
    IF comps = <<>> THEN <<>>
    ELSE IF Len(comps) = 1 THEN comps[1]
    ELSE IF comps[1] = <<Slash>> THEN <<Slash>> \o JoinComponents(Tail(comps))
    ELSE comps[1] \o <<Slash>> \o JoinComponents(Tail(comps))

\* path.strip_prefix(&dir).unwrap_or(&path)
strip_prefix_or(path, dir) ==
    IF starts_with(path, dir)
    THEN LET cp == Components(path)
         IN  JoinComponents(SubSeq(cp, Len(Components(dir)) + 1, Len(cp)))
    ELSE path

\* PathBuf::join
join(base, rel) ==
    IF rel # <<>> /\ rel[1] = Slash THEN rel
    ELSE IF base = <<>> THEN rel
    ELSE IF base[Len(base)] = Slash THEN base \o rel
    ELSE base \o <<Slash>> \o rel

\* str::to_ascii_lowercase
to_ascii_lowercase(s) ==
    [i \in 1..Len(s) |->
        IF s[i] >= UpperA /\ s[i] <= UpperZ THEN s[i] + CaseOffset ELSE s[i]]

\* ------------------------------------------------------------------------
\* VfsFile (vfs_file.rs) and StoredArchive (lib.rs)
\* ------------------------------------------------------------------------
\* VfsFile::from
VfsFile_from(path) == [kind |-> "Loose", path |-> path]

\* VfsFile::from_archive
VfsFile_from_archive(path, parent_archive) ==
    [kind |-> "Archive", path |-> path, parent_archive |-> parent_archive]

is_loose(file) == file.kind = "Loose"

is_archive(file) == file.kind = "Archive"

\* VfsFile::path
VfsFile_path(file) == file.path

\* ------------------------------------------------------------------------
\* HashMap<PathBuf, VfsFile>: a function from the stored key to the file.
\* Keys are compared as PathBuf compares them (by components); an insert
\* under a key already present replaces the value and keeps the stored key.
\* ------------------------------------------------------------------------
EmptyMap == <<>>

MapHas(m, key) == \E k \in DOMAIN m : PathEq(k, key)

MapGet(m, key) == m[CHOOSE k \in DOMAIN m : PathEq(k, key)]

MapInsert(m, key, value) ==
    IF MapHas(m, key)
    THEN [m EXCEPT ![CHOOSE k \in DOMAIN m : PathEq(k, key)] = value]
    ELSE [k \in DOMAIN m \cup {key} |-> IF k = key THEN value ELSE m[k]]

RECURSIVE ExtendPairs(_, _)
\* Extend::extend over (key, value) pairs in iteration order.
ExtendPairs(m, pairs) ==
    IF pairs = <<>> THEN m
    ELSE ExtendPairs(MapInsert(m, pairs[1][1], pairs[1][2]), Tail(pairs))

RECURSIVE MapPairs(_)
\* The entries of a map in one iteration order (its keys are distinct, so the
\* result of extending with them does not depend on the order).
MapPairs(m) ==
    IF DOMAIN m = {} THEN <<>>
    ELSE LET k == CHOOSE x \in DOMAIN m : TRUE
         IN  << <<k, m[k]>> >> \o MapPairs([x \in DOMAIN m \ {k} |-> m[x]])

RECURSIVE Reverse(_)
Reverse(seq) == IF seq = <<>> THEN <<>> ELSE Append(Reverse(Tail(seq)), seq[1])

RECURSIVE Flatten(_)
Flatten(seqs) ==
    IF seqs = <<>> THEN <<>> ELSE seqs[1] \o Flatten(Tail(seqs))

\* ------------------------------------------------------------------------
\* The disk a behaviour starts from.
\* ------------------------------------------------------------------------
RootA == <<47, 65>>                  \* "/A"
RootB == <<47, 66>>                  \* "/B"
RootR == <<47, 82>>                  \* "/R", the directory of the archive files

\* Relative paths of loose files, in their on-disk case: "M/X", "m/x", "x".
\* "M/X" and "m/x" have one key; "x" is the last component of both.
LooseRel == {<<77, 47, 88>>, <<109, 47, 120>>, <<120>>}

\* Archive files on disk: "/R/P" and "/R/q".
ArchiveFileP == join(RootR, <<80>>)
ArchiveFileQ == join(RootR, <<113>>)

Data == [kind |-> "data"]

\* No file at that path.
Absent == [kind |-> "absent"]

\* A file that is an archive: the format its header announces, whether its
\* directory decodes, and the names it stores, in directory order.
ArchiveBody(format, decodes, names) ==
    [kind |-> "archive", format |-> format, decodes |-> decodes, names |-> names]

\* What "/R/P" can be: a TES3 archive storing "M\X", or a file whose header
\* is none of the three formats.
ArchiveBodiesP ==
    { ArchiveBody("TES3", TRUE, << <<77, 92, 88>> >>),
      ArchiveBody("unknown", TRUE, << <<121>> >>) }

\* What "/R/q" can be: a TES3 archive storing "m/x" and "y", an FO4 archive
\* storing "x" and "M\X", or a TES4 archive whose directory does not decode.
ArchiveBodiesQ ==
    { ArchiveBody("TES3", TRUE, << <<109, 47, 120>>, <<121>> >>),
      ArchiveBody("FO4", TRUE, << <<120>>, <<77, 92, 88>> >>),
      ArchiveBody("TES4", FALSE, << <<121>> >>) }

\* The archive names a caller lists: "P" then "q", or "Q" then "p".
ArchiveLists == { << <<80>>, <<113>> >>, << <<81>>, <<112>> >> }

\* The archive directory first, then the data roots (as the test of vfs.rs does).
SearchDirLists == { <<RootR, RootA, RootB>> }

LooseSets == {S \in SUBSET LooseRel : Cardinality(S) <= MaxLoose}

\* The disk holding the loose files la under /A and lb under /B, and the
\* archive files with bodies bp and bq (Absent: no such file).
MakeDisk(la, lb, bp, bq) ==
    LET paths == {join(RootA, r) : r \in la} \cup {join(RootB, r) : r \in lb}
                 \cup (IF bp = Absent THEN {} ELSE {ArchiveFileP})
                 \cup (IF bq = Absent THEN {} ELSE {ArchiveFileQ})
    IN  [p \in paths |->
            IF p = ArchiveFileP THEN bp
            ELSE IF p = ArchiveFileQ THEN bq
            ELSE Data]

Disks ==
    {MakeDisk(la, lb, bp, bq) :
        la \in LooseSets, lb \in LooseSets,
        bp \in ArchiveBodiesP \cup {Absent}, bq \in ArchiveBodiesQ \cup {Absent}}

\* WalkDir::new(dir) filtered to regular files: every file below dir.
WalkDir(d, dir) == {p \in DOMAIN d : starts_with(p, dir)}

\* ------------------------------------------------------------------------
\* VFS::directory_contents_to_file_map, the closure mapped over the entries
\* ------------------------------------------------------------------------
\* As directory_contents_to_file_map, had the key been left as found on disk.
directory_contents_to_file_map_raw_key(c, dir, path) ==
    <<strip_prefix_or(path, dir), VfsFile_from(path)>>

\* As directory_contents_to_file_map, had the file been made from the key.
directory_contents_to_file_map_file_of_key(c, dir, path) ==
    LET target_path == strip_prefix_or(path, dir)
        normalized_path == crate_normalize_path(c, target_path)
    IN  <<normalized_path, VfsFile_from(join(dir, normalized_path))>>

directory_contents_to_file_map(c, dir, path) ==
    LET target_path == strip_prefix_or(path, dir)
        normalized_path == crate_normalize_path(c, target_path)
    IN  <<normalized_path, VfsFile_from(path)>>

\* ------------------------------------------------------------------------
\* archives::from_set and archives::file_map
\* ------------------------------------------------------------------------
\* As OpensAs, had every archive file been taken for a readable TES3 archive.
\* OpensAs is what opening and decoding the archive file at `path` gives: the crate
\* "vfstool_lib" guesses the format among TES3, TES4 and FO4; "vfstool" reads
\* TES3 only.
OpensAs_any_header(c, d, path) ==
    IF d[path].kind = "archive" THEN "TES3" ELSE "none"

OpensAs(c, d, path) ==
    LET body == d[path]
    IN  IF body.kind # "archive" \/ ~body.decodes THEN "none"
        ELSE IF c = CrateNew
             THEN (IF body.format \in {"TES3", "TES4", "FO4"} THEN body.format ELSE "none")
             ELSE (IF body.format = "TES3" THEN "TES3" ELSE "none")

RECURSIVE from_set_from(_, _, _, _, _)
\* from_set over archive_list[i..], `acc` the handles kept so far.
from_set_from(c, d, loose_map, list, acc) ==
    IF list = <<>> THEN acc
    ELSE
      LET archive_path == to_ascii_lowercase(list[1])
          found == MapHas(loose_map, archive_path)
          path == VfsFile_path(MapGet(loose_map, archive_path))
          format == OpensAs(c, d, path)
          handle == [slot |-> Len(acc) + 1, path |-> path,
                     format |-> format, names |-> d[path].names]
      IN  IF found /\ path \in DOMAIN d /\ format # "none"
          THEN from_set_from(c, d, loose_map, Tail(list), Append(acc, handle))
          ELSE from_set_from(c, d, loose_map, Tail(list), acc)

from_set(c, d, loose_map, list) == from_set_from(c, d, loose_map, list, <<>>)

\* The (key, VfsFile) pairs of one StoredArchive, in directory order.
archive_entries(c, stored_archive) ==
    [i \in 1..Len(stored_archive.names) |->
        <<crate_normalize_path(c, stored_archive.names[i]),
          VfsFile_from_archive(stored_archive.names[i], stored_archive)>>]

\* As archives_file_map, had the first archive holding a key kept it.
archives_file_map_first_wins(c, archives) ==
    ExtendPairs(EmptyMap,
        Flatten(Reverse([i \in 1..Len(archives) |-> archive_entries(c, archives[i])])))

archives_file_map(c, archives) ==
    ExtendPairs(EmptyMap,
        Flatten([i \in 1..Len(archives) |-> archive_entries(c, archives[i])]))

\* ------------------------------------------------------------------------
\* VFS::from_directories
\* ------------------------------------------------------------------------
RootIdx == 1..Len(search_dirs)

\* normalize_path has not been called.
NormIdle ==
    /\ norm_input = <<>>
    /\ norm_once = <<>>
    /\ norm_twice = <<>>
    /\ norm_step = 0

\* No VfsFile has been opened.
ReaderIdle ==
    /\ vfs_file = <<>>
    /\ open_result = <<>>
    /\ chunks = <<>>
    /\ current_chunk = <<>>
    /\ position = 0
    /\ cursor = <<>>
    /\ delivered = <<>>
    /\ buf_len = 0
    /\ read_ret = 0
    /\ reads = 0

\* No tree has been projected.
TreeIdle ==
    /\ iter_order = <<>>
    /\ tree = <<>>
    /\ filtered = <<>>
    /\ node_before = <<>>
    /\ node_after = <<>>
    /\ node_pred = ""

\* vfs[s] has not been evaluated, at any time of the process.
IndexIdle ==
    /\ DEFAULT_FILE = [kind |-> "None"]
    /\ index_arg = <<>>
    /\ index_ret = <<>>

\* The Arcs of the StoredArchives are not followed.
ArcIdle ==
    /\ vfs_alive = FALSE
    /\ handle_clones = <<>>
    /\ strong = <<>>
    /\ released = {}

Init ==
    /\ crate \in Crates
    /\ disk \in Disks
    /\ search_dirs \in SearchDirLists
    /\ archive_list \in ArchiveLists
    /\ pc = "walk"
    /\ pending = [r \in 1..Len(search_dirs) |-> WalkDir(disk, search_dirs[r])]
    /\ produced = [r \in 1..Len(search_dirs) |-> <<>>]
    /\ map = EmptyMap
    /\ archive_handles = <<>>
    /\ file_map = EmptyMap
    /\ NormIdle
    /\ IndexIdle
    /\ ReaderIdle
    /\ TreeIdle
    /\ ArcIdle

\* A worker thread maps one entry that the walker of root r bridged to it.
\* The roots are walked in parallel and par_bridge hands a root's entries out
\* in no particular order.
MapEntry(r, path) ==
    /\ pc = "walk"
    /\ path \in pending[r]
    /\ pending' = [pending EXCEPT ![r] = @ \ {path}]
    /\ produced' = [produced EXCEPT
            ![r] = Append(@, directory_contents_to_file_map(crate, search_dirs[r], path))]
    /\ UNCHANGED <<crate, disk, search_dirs, archive_list, pc, map, archive_handles,
                   file_map>>
    /\ UNCHANGED not_vfs_vars

\* As CollectedPairs, had the roots' pairs been gathered last root first.
CollectedPairs_reversed(prod) == Flatten(Reverse(prod))

\* The pairs a parallel walk of the roots hands to collect / par_extend:
\* flat_map keeps the order of the roots, each root's pairs are in the order
\* its workers finished.
CollectedPairs(prod) == Flatten(prod)

\* As Collect, had the pairs of the roots been gathered in the order the
\* roots happened to finish.
Collect_roots_as_finished ==
    /\ pc = "walk"
    /\ \A r \in RootIdx : pending[r] = {}
    /\ \E order \in {f \in [RootIdx -> RootIdx] :
                         \A i, j \in RootIdx : f[i] = f[j] => i = j} :
          map' = ExtendPairs(EmptyMap,
                     CollectedPairs([i \in RootIdx |-> produced[order[i]]]))
    /\ produced' = [r \in RootIdx |-> <<>>]
    /\ pc' = "resolve"
    /\ UNCHANGED <<crate, disk, search_dirs, archive_list, pending,
                   archive_handles, file_map>>
    /\ UNCHANGED not_vfs_vars

\* .collect() into the intermediate HashMap, which consumes the pairs
Collect ==
    /\ pc = "walk"
    /\ \A r \in RootIdx : pending[r] = {}
    /\ map' = ExtendPairs(EmptyMap, CollectedPairs(produced))
    /\ produced' = [r \in RootIdx |-> <<>>]
    /\ pc' = "resolve"
    /\ UNCHANGED <<crate, disk, search_dirs, archive_list, pending,
                   archive_handles, file_map>>
    /\ UNCHANGED not_vfs_vars

\* let archive_handles = archives::from_set(&map, list)
FromSet ==
    /\ pc = "resolve"
    /\ archive_handles' = from_set(crate, disk, map, archive_list)
    /\ pc' = "ingest"
    /\ UNCHANGED <<crate, disk, search_dirs, archive_list, pending, produced, map,
                   file_map>>
    /\ UNCHANGED not_vfs_vars

\* vfs.file_map.par_extend(archives::file_map(archive_handles))
ExtendArchives ==
    /\ pc = "ingest"
    /\ file_map' = ExtendPairs(file_map, MapPairs(archives_file_map(crate, archive_handles)))
    /\ pc' = "overlay"
    /\ UNCHANGED <<crate, disk, search_dirs, archive_list, pending, produced, map,
                   archive_handles>>
    /\ UNCHANGED not_vfs_vars

\* As ExtendLoose, had an entry already in file_map been kept.
ExtendLoose_keep_existing ==
    /\ pc = "overlay"
    /\ file_map' = ExtendPairs(map, MapPairs(file_map))
    /\ pc' = "done"
    /\ UNCHANGED <<crate, disk, search_dirs, archive_list, pending, produced, map,
                   archive_handles>>
    /\ UNCHANGED not_vfs_vars

\* vfs.file_map.par_extend(map)
ExtendLoose ==
    /\ pc = "overlay"
    /\ file_map' = ExtendPairs(file_map, MapPairs(map))
    /\ pc' = "done"
    /\ UNCHANGED <<crate, disk, search_dirs, archive_list, pending, produced, map,
                   archive_handles>>
    /\ UNCHANGED not_vfs_vars

\* ------------------------------------------------------------------------
\* VFS::add_directory and VFS::add_directories (src/src/vfs.rs only)
\* ------------------------------------------------------------------------
\* The orders in which the workers of one walk can finish its entries.
Orders(S) ==
    {f \in [1..Cardinality(S) -> S] : \A i, j \in 1..Cardinality(S) : f[i] = f[j] => i = j}

\* The pairs one walk of `dir` yields when its entries finish in `order`.
WalkPairs(c, dir, order) ==
    [i \in 1..Len(order) |-> directory_contents_to_file_map(c, dir, order[i])]

\* As add_directory, had a key already bound kept its file.
add_directory_keep_existing(dir) ==
    /\ pc \in {"done", "appended"}
    /\ crate = CrateOld
    /\ \E order \in Orders(WalkDir(disk, dir)) :
          file_map' = ExtendPairs(ExtendPairs(EmptyMap, WalkPairs(crate, dir, order)),
                                  MapPairs(file_map))
    /\ pc' = "appended"
    /\ UNCHANGED <<crate, disk, search_dirs, archive_list, pending, produced, map,
                   archive_handles>>
    /\ UNCHANGED not_vfs_vars

\* self.file_map.par_extend(Self::directory_contents_to_file_map(dir))
add_directory(dir) ==
    /\ pc \in {"done", "appended"}
    /\ crate = CrateOld
    /\ \E order \in Orders(WalkDir(disk, dir)) :
          file_map' = ExtendPairs(file_map, WalkPairs(crate, dir, order))
    /\ pc' = "appended"
    /\ UNCHANGED <<crate, disk, search_dirs, archive_list, pending, produced, map,
                   archive_handles>>
    /\ UNCHANGED not_vfs_vars

\* self.file_map.par_extend(search_dirs.into_par_iter().flat_map(...)),
\* for a list of two directories
add_directories(dirs) ==
    /\ pc \in {"done", "appended"}
    /\ crate = CrateOld
    /\ \E o1 \in Orders(WalkDir(disk, dirs[1])), o2 \in Orders(WalkDir(disk, dirs[2])) :
          file_map' = ExtendPairs(file_map,
                          WalkPairs(crate, dirs[1], o1) \o WalkPairs(crate, dirs[2], o2))
    /\ pc' = "appended"
    /\ UNCHANGED <<crate, disk, search_dirs, archive_list, pending, produced, map,
                   archive_handles>>
    /\ UNCHANGED not_vfs_vars

Next ==
    \/ \E r \in RootIdx : \E path \in pending[r] : MapEntry(r, path)
    \/ Collect
    \/ FromSet
    \/ ExtendArchives
    \/ ExtendLoose
    \/ \E dir \in {RootA, RootB} : add_directory(dir)
    \/ add_directories(<<RootB, RootA>>)

Spec == Init /\ [][Next]_vars

\* ------------------------------------------------------------------------
\* from_directories over an archive that lies in a subdirectory of its root
\* ------------------------------------------------------------------------
\* "/R/S/q"
ArchiveFileS == join(RootR, <<83, 47, 113>>)

\* The disk holding the loose files la under /A, the TES3 archive "/R/S/q"
\* storing "y", and the archive file "/R/P" with body bp (Absent: no such file).
MakeSubdirDisk(la, bp) ==
    LET paths == {join(RootA, r) : r \in la} \cup {ArchiveFileS}
                 \cup (IF bp = Absent THEN {} ELSE {ArchiveFileP})
    IN  [p \in paths |->
            IF p = ArchiveFileS THEN ArchiveBody("TES3", TRUE, << <<121>> >>)
            ELSE IF p = ArchiveFileP THEN bp
            ELSE Data]

SubdirDisks ==
    {MakeSubdirDisk(la, bp) : la \in LooseSets, bp \in ArchiveBodiesP \cup {Absent}}

\* The archive names a caller lists: "S\q", "s/q", "S/Q" then "P", "s\Q".
SubdirArchiveLists ==
    { << <<83, 92, 113>> >>, << <<115, 47, 113>> >>,
      << <<83, 47, 81>>, <<80>> >>, << <<115, 92, 81>> >> }

ResolveInit ==
    /\ crate \in Crates
    /\ disk \in SubdirDisks
    /\ search_dirs \in SearchDirLists
    /\ archive_list \in SubdirArchiveLists
    /\ pc = "walk"
    /\ pending = [r \in 1..Len(search_dirs) |-> WalkDir(disk, search_dirs[r])]
    /\ produced = [r \in 1..Len(search_dirs) |-> <<>>]
    /\ map = EmptyMap
    /\ archive_handles = <<>>
    /\ file_map = EmptyMap
    /\ NormIdle
    /\ IndexIdle
    /\ ReaderIdle
    /\ TreeIdle
    /\ ArcIdle

ResolveSpec == ResolveInit /\ [][Next]_vars

\* ------------------------------------------------------------------------
\* normalize_path applied once and twice to an arbitrary byte path
\* ------------------------------------------------------------------------
\* No VFS is being built.
VfsIdle ==
    /\ disk = <<>>
    /\ search_dirs = <<>>
    /\ archive_list = <<>>
    /\ pc = "idle"
    /\ pending = <<>>
    /\ produced = <<>>
    /\ map = EmptyMap
    /\ archive_handles = <<>>
    /\ file_map = EmptyMap

NormInit ==
    /\ crate \in Crates
    /\ norm_input \in NormInputs
    /\ norm_once = <<>>
    /\ norm_twice = <<>>
    /\ norm_step = 0
    /\ VfsIdle
    /\ IndexIdle
    /\ ReaderIdle
    /\ TreeIdle
    /\ ArcIdle

NormalizeOnce ==
    /\ norm_step = 0
    /\ norm_once' = crate_normalize_path(crate, norm_input)
    /\ norm_step' = 1
    /\ UNCHANGED <<crate, norm_input, norm_twice>>
    /\ UNCHANGED not_norm_vars

NormalizeTwice ==
    /\ norm_step = 1
    /\ norm_twice' = crate_normalize_path(crate, norm_once)
    /\ norm_step' = 2
    /\ UNCHANGED <<crate, norm_input, norm_once>>
    /\ UNCHANGED not_norm_vars

NormNext == NormalizeOnce \/ NormalizeTwice

NormSpec == NormInit /\ [][NormNext]_vars

\* ------------------------------------------------------------------------
\* Lookups (vfs.rs)
\* ------------------------------------------------------------------------
None == [kind |-> "None"]

\* As get_file, had the path been looked up as given.
get_file_as_given(c, fm, path) ==
    IF MapHas(fm, path) THEN MapGet(fm, path) ELSE None

\* VFS::get_file
get_file(c, fm, path) ==
    LET normalized_path == crate_normalize_path(c, path)
    IN  IF MapHas(fm, normalized_path) THEN MapGet(fm, normalized_path) ELSE None

\* As has_normalized_file, had the target been compared as given.
has_normalized_file_as_given(fm, target) ==
    \E relative_path \in DOMAIN fm : ends_with(target, relative_path)

\* VFS::has_normalized_file
has_normalized_file(fm, target) ==
    LET normalized == normalize_path(target)
    IN  \E relative_path \in DOMAIN fm : ends_with(normalized, relative_path)

\* As has_file, had the stored path() been compared without normalizing it.
has_file_raw_path(fm, target) ==
    LET normalized == normalize_path(target)
    IN  \E k \in DOMAIN fm : PathEq(VfsFile_path(fm[k]), normalized)

\* VFS::has_file
has_file(fm, target) ==
    LET normalized == normalize_path(target)
    IN  \E k \in DOMAIN fm : PathEq(normalize_path(VfsFile_path(fm[k])), normalized)

\* As paths_with, had the prefix been compared as given.
paths_with_as_given(fm, prefix) ==
    {<<path, fm[path]>> : path \in {k \in DOMAIN fm : starts_with(k, prefix)}}

\* VFS::paths_with: the (key, file) pairs the iterator yields
paths_with(fm, prefix) ==
    LET normalized_prefix == normalize_path(prefix)
    IN  {<<path, fm[path]>> : path \in {k \in DOMAIN fm : starts_with(k, normalized_prefix)}}

\* VFS::par_paths_with: the (key, file) pairs the parallel iterator yields
par_paths_with(fm, prefix) ==
    LET normalized_prefix == normalize_path(prefix)
    IN  {<<path, fm[path]>> : path \in {k \in DOMAIN fm : starts_with(k, normalized_prefix)}}

\* As has_normalized_not_exact, without the comparison of path() to the target.
has_normalized_not_exact_any(fm, target) ==
    LET normalized == normalize_path(target)
    IN  \E relative_path \in DOMAIN fm : ends_with(normalized, relative_path)

\* VFS::has_normalized_not_exact
has_normalized_not_exact(fm, target) ==
    LET normalized == normalize_path(target)
    IN  \E relative_path \in DOMAIN fm :
            /\ ~PathEq(VfsFile_path(fm[relative_path]), target)
            /\ ends_with(normalized, relative_path)

\* ------------------------------------------------------------------------
\* VfsFile::open and the readers it returns (vfs_file.rs)
\* ------------------------------------------------------------------------
MaxBuf == 4
MaxReads == 4

Some(v) == [kind |-> "Some", value |-> v]

Min(a, b) == IF a < b THEN a ELSE b

\* Path::parent: None for "" and for a path that ends in the root.
Path_parent(path) ==
    LET c == Components(path)
    IN  IF c = <<>> \/ c[Len(c)] = <<Slash>> THEN None
        ELSE Some(JoinComponents(SubSeq(c, 1, Len(c) - 1)))

\* Path::file_name: None for "", for the root and for a path that ends in "..".
Path_file_name(path) ==
    LET c == Components(path)
    IN  IF c = <<>> \/ c[Len(c)] = <<Slash>> \/ c[Len(c)] = <<46, 46>> THEN None
        ELSE Some(c[Len(c)])

\* The archive key a name hashes to: names are keyed without regard to ASCII
\* case or separator style.
ArchiveKey(name) == normalize_path(encode_utf8(to_string_lossy(name)))

\* Archive::get / Directory::get: the entries stored under the key of `name`.
Archive_get(entries, name) == {e \in entries : ArchiveKey(e.name) = ArchiveKey(name)}

Ok(kind) == [result |-> "Ok", reader |-> kind]
Err(kind) == [result |-> "Err", error |-> kind]
Panic == [result |-> "panic"]

\* ArchiveReference::tes4_keys
tes4_keys(path) ==
    IF Path_parent(path) = None THEN Err("NotFound")
    ELSE IF Path_file_name(path) = None THEN Err("NotFound")
    ELSE [result |-> "Ok", dir_key |-> Path_parent(path).value,
          file_key |-> Path_file_name(path).value]

\* Fo4FileReader::new: the chunks in order, the first already taken.
Fo4FileReader_new(file) ==
    [chunks |-> IF file.chunks = <<>> THEN <<>> ELSE Tail(file.chunks),
     current_chunk |-> IF file.chunks = <<>> THEN None ELSE Some(Head(file.chunks)),
     position |-> 0]

\* TES4FileReader::new
TES4FileReader_new(file) ==
    IF file.compressed /\ ~file.decompresses THEN Err("InvalidData")
    ELSE [result |-> "Ok", data |-> file.bytes]

\* VfsFile::open: what the call gives back. A loose file is opened on disk;
\* an archived one is looked up in its parent archive, and the three lookups
\* are unwrapped.
VfsFile_open(file, d) ==
    IF file.kind = "Loose"
    THEN (IF file.path \in DOMAIN d THEN Ok("File") ELSE Err("NotFound"))
    ELSE
      LET parent == file.parent_archive.archive
      IN  IF parent.format = "TES3"
          THEN (IF Archive_get(parent.files, file.path) = {} THEN Panic
                ELSE Ok("Cursor"))
          ELSE IF parent.format = "TES4"
          THEN LET keys == tes4_keys(file.path)
               IN  IF keys.result # "Ok" THEN keys
                   ELSE LET dirs == Archive_get(parent.dirs, keys.dir_key)
                            files == UNION {Archive_get(dir.files, keys.file_key) : dir \in dirs}
                        IN  IF files = {} THEN Panic
                            ELSE LET r == TES4FileReader_new(CHOOSE f \in files : TRUE)
                                 IN  IF r.result = "Ok" THEN Ok("TES4FileReader") ELSE r
          ELSE (IF Archive_get(parent.files, file.path) = {} THEN Panic
                ELSE Ok("Fo4FileReader"))

\* The bytes behind the reader open() returned, for the readers that hold
\* them as one span.
OpenedData(file, d) ==
    IF file.kind = "Loose" THEN d[file.path].bytes
    ELSE
      LET parent == file.parent_archive.archive
      IN  IF parent.format = "TES3"
          THEN (CHOOSE f \in Archive_get(parent.files, file.path) : TRUE).bytes
          ELSE LET keys == tes4_keys(file.path)
                   dirs == Archive_get(parent.dirs, keys.dir_key)
                   files == UNION {Archive_get(dir.files, keys.file_key) : dir \in dirs}
               IN  (CHOOSE f \in files : TRUE).bytes

\* The FO4 file open() found.
OpenedFo4File(file) ==
    CHOOSE f \in Archive_get(file.parent_archive.archive.files, file.path) : TRUE

RECURSIVE ReadLoop(_, _, _, _, _, _)
\* The while loop of Fo4FileReader::read for a buffer of n bytes: `total` bytes
\* are in the buffer so far and `out` is what they are.
ReadLoop(ch, cur, pos, total, out, n) ==
    IF ~(total < n)
    THEN [chunks |-> ch, current_chunk |-> cur, position |-> pos, ret |-> total, buf |-> out]
    ELSE
      LET here == cur.kind = "Some" /\ pos < Len(cur.value)
          next == IF ch = <<>> THEN None ELSE Some(Head(ch))
          ch2 == IF here \/ ch = <<>> THEN ch ELSE Tail(ch)
          cur2 == IF here THEN cur ELSE next
          pos2 == IF here THEN pos ELSE 0
      IN  IF cur2.kind = "None"
          THEN [chunks |-> ch2, current_chunk |-> cur2, position |-> pos2,
                ret |-> total, buf |-> out]
          ELSE
            LET chunk == cur2.value
                remaining == Len(chunk) - pos2
                to_read == Min(n - total, remaining)
            IN  ReadLoop(ch2, cur2, pos2 + to_read, total + to_read,
                         out \o SubSeq(chunk, pos2 + 1, pos2 + to_read), n)

RECURSIVE ReadCopies(_, _, _, _, _)
\* The copy_from_slice calls of the while loop of Fo4FileReader::read for a
\* buffer of n bytes, in order: for each, the length of the chunk copied
\* from, the range chunk[src_from..src_to] and the range buf[dst_from..dst_to].
ReadCopies(ch, cur, pos, total, n) ==
    IF ~(total < n)
    THEN <<>>
    ELSE
      LET here == cur.kind = "Some" /\ pos < Len(cur.value)
          next == IF ch = <<>> THEN None ELSE Some(Head(ch))
          ch2 == IF here \/ ch = <<>> THEN ch ELSE Tail(ch)
          cur2 == IF here THEN cur ELSE next
          pos2 == IF here THEN pos ELSE 0
      IN  IF cur2.kind = "None"
          THEN <<>>
          ELSE
            LET chunk == cur2.value
                remaining == Len(chunk) - pos2
                to_read == Min(n - total, remaining)
            IN  << [chunk_len |-> Len(chunk),
                    src_from |-> pos2, src_to |-> pos2 + to_read,
                    dst_from |-> total, dst_to |-> total + to_read] >>
                \o ReadCopies(ch2, cur2, pos2 + to_read, total + to_read, n)

\* As Fo4FileReader_read, had a read stopped at the end of the current chunk.
Fo4FileReader_read_one_chunk(ch, cur, pos, n) ==
    LET left == IF cur.kind = "Some" /\ pos < Len(cur.value) THEN Len(cur.value) - pos ELSE n
    IN  ReadLoop(ch, cur, pos, 0, <<>>, Min(n, left))

\* As Fo4FileReader_read, had the position not gone back to 0 at a new chunk.
Fo4FileReader_read_keep_position(ch, cur, pos, n) ==
    LET here == cur.kind = "Some" /\ pos < Len(cur.value)
    IN  IF here \/ ch = <<>> \/ n = 0 THEN ReadLoop(ch, cur, pos, 0, <<>>, n)
        ELSE ReadLoop(Tail(ch), Some(Head(ch)), Min(pos, Len(Head(ch))), 0, <<>>, n)

\* As Fo4FileReader_read, had the loop left a finished chunk before it tested
\* the buffer.
Fo4FileReader_read_leave_chunk_first(ch, cur, pos, n) ==
    LET here == cur.kind = "Some" /\ pos < Len(cur.value)
    IN  IF here \/ ch = <<>> THEN ReadLoop(ch, cur, pos, 0, <<>>, n)
        ELSE ReadLoop(Tail(ch), Some(Head(ch)), 0, 0, <<>>, n)

\* <Fo4FileReader as Read>::read into a buffer of n bytes
Fo4FileReader_read(ch, cur, pos, n) == ReadLoop(ch, cur, pos, 0, <<>>, n)

\* <Cursor as Read>::read (also the read of a file): the next n bytes, or what
\* is left.
Cursor_read(c, n) ==
    LET amt == Min(n, Len(c.data) - c.pos)
    IN  [cursor |-> [data |-> c.data, pos |-> c.pos + amt], ret |-> amt,
         buf |-> SubSeq(c.data, c.pos + 1, c.pos + amt)]

\* The archives a VfsFile can point into. Names: "m\x" "y"; directory "m"
\* with file "x".
StoredTes3 ==
    [path |-> ArchiveFileP,
     archive |-> [format |-> "TES3",
                  files |-> {[name |-> <<109, 92, 120>>, bytes |-> <<1, 2, 3>>]}]]

StoredTes4 ==
    [path |-> ArchiveFileQ,
     archive |-> [format |-> "TES4",
                  dirs |-> {[name |-> <<109>>,
                             files |-> {[name |-> <<120>>, compressed |-> FALSE,
                                         decompresses |-> TRUE, bytes |-> <<1, 2>>],
                                        [name |-> <<121>>, compressed |-> TRUE,
                                         decompresses |-> TRUE, bytes |-> <<3>>],
                                        [name |-> <<122>>, compressed |-> TRUE,
                                         decompresses |-> FALSE, bytes |-> <<>>]}]}]]

\* The chunk lists an FO4 file can have.
Fo4ChunkLists ==
    { <<>>,
      << <<1, 2>> >>,
      << <<1>>, <<2>>, <<3>> >>,
      << <<1, 2>>, <<>>, <<3>> >>,
      << <<>>, <<1, 2, 3>>, <<4, 5>> >> }

StoredFo4(cl) ==
    [path |-> ArchiveFileQ,
     archive |-> [format |-> "FO4",
                  files |-> {[name |-> <<109, 92, 120>>, chunks |-> cl]}]]

\* The loose file "/A/x" with its content.
ReaderDisk == (join(RootA, <<120>>) :> [kind |-> "data", bytes |-> <<7, 8, 9>>])

\* The VfsFiles open() is called on: loose files that are and are not on disk,
\* and archived files under paths "M/X" "m\y" "m/z" "m/w" "w" "" "m/.." that
\* their archive does or does not store.
OpenedFiles ==
    {VfsFile_from(join(RootA, rel)) : rel \in {<<120>>, <<121>>}}
    \cup {VfsFile_from_archive(pth, StoredTes3) : pth \in {<<77, 47, 88>>, <<119>>}}
    \cup {VfsFile_from_archive(pth, StoredTes4) :
            pth \in {<<77, 47, 88>>, <<109, 92, 121>>, <<109, 47, 122>>, <<109, 47, 119>>,
                     <<119>>, <<>>, <<109, 47, 46, 46>>}}
    \cup {VfsFile_from_archive(<<77, 47, 88>>, StoredFo4(cl)) : cl \in Fo4ChunkLists}
    \cup {VfsFile_from_archive(<<119>>, StoredFo4(<< <<1>> >>))}

ReaderInit ==
    /\ crate = CrateNew
    /\ vfs_file \in OpenedFiles
    /\ open_result = <<>>
    /\ chunks = <<>>
    /\ current_chunk = None
    /\ position = 0
    /\ cursor = [data |-> <<>>, pos |-> 0]
    /\ delivered = <<>>
    /\ buf_len = 0
    /\ read_ret = 0
    /\ reads = 0
    /\ disk = ReaderDisk
    /\ search_dirs = <<>>
    /\ archive_list = <<>>
    /\ pc = "idle"
    /\ pending = <<>>
    /\ produced = <<>>
    /\ map = EmptyMap
    /\ archive_handles = <<>>
    /\ file_map = EmptyMap
    /\ NormIdle
    /\ IndexIdle
    /\ TreeIdle
    /\ ArcIdle

\* file.open()
Open ==
    /\ vfs_file # <<>>
    /\ open_result = <<>>
    /\ open_result' = VfsFile_open(vfs_file, disk)
    /\ IF open_result'.result = "Ok" /\ open_result'.reader = "Fo4FileReader"
       THEN LET r == Fo4FileReader_new(OpenedFo4File(vfs_file))
            IN  /\ chunks' = r.chunks
                /\ current_chunk' = r.current_chunk
                /\ position' = r.position
                /\ UNCHANGED cursor
       ELSE /\ cursor' = IF open_result'.result = "Ok"
                         THEN [data |-> OpenedData(vfs_file, disk), pos |-> 0]
                         ELSE cursor
            /\ UNCHANGED <<chunks, current_chunk, position>>
    /\ UNCHANGED <<crate, vfs_file, delivered, buf_len, read_ret, reads>>
    /\ UNCHANGED not_reader_vars

\* reader.read(&mut buf) with buf.len() = n
Read(n) ==
    /\ open_result # <<>>
    /\ open_result.result = "Ok"
    /\ reads < MaxReads
    /\ IF open_result.reader = "Fo4FileReader"
       THEN LET r == Fo4FileReader_read(chunks, current_chunk, position, n)
            IN  /\ chunks' = r.chunks
                /\ current_chunk' = r.current_chunk
                /\ position' = r.position
                /\ read_ret' = r.ret
                /\ delivered' = delivered \o r.buf
                /\ UNCHANGED cursor
       ELSE LET r == Cursor_read(cursor, n)
            IN  /\ cursor' = r.cursor
                /\ read_ret' = r.ret
                /\ delivered' = delivered \o r.buf
                /\ UNCHANGED <<chunks, current_chunk, position>>
    /\ buf_len' = n
    /\ reads' = reads + 1
    /\ UNCHANGED <<crate, vfs_file, open_result>>
    /\ UNCHANGED not_reader_vars

ReaderNext == Open \/ \E n \in 0..MaxBuf : Read(n)

ReaderSpec == ReaderInit /\ [][ReaderNext]_vars

\* ------------------------------------------------------------------------
\* DirectoryNode (directory_node.rs) and VFS::tree / tree_filtered (vfs.rs)
\* ------------------------------------------------------------------------
\* "Data Files"
DataFiles == <<68, 97, 116, 97, 32, 70, 105, 108, 101, 115>>

\* DirectoryNode::new
DirectoryNode_new == [files |-> <<>>, subdirs |-> <<>>]

\* VfsFile::file_name
file_name(file) == Path_file_name(VfsFile_path(file))

RECURSIVE BytesLess(_, _)
\* The order of OsStr: byte by byte, a proper prefix first.
BytesLess(a, b) ==
    IF b = <<>> THEN FALSE
    ELSE IF a = <<>> THEN TRUE
    ELSE IF a[1] # b[1] THEN a[1] < b[1]
    ELSE BytesLess(Tail(a), Tail(b))

\* The order of Option<&OsStr>: None first.
NameLess(a, b) ==
    IF b.kind = "None" THEN FALSE
    ELSE IF a.kind = "None" THEN TRUE
    ELSE BytesLess(a.value, b.value)

RECURSIVE InsertByName(_, _)
\* `file` put into the sorted `files` behind every file that is not greater.
InsertByName(files, file) ==
    IF files = <<>> THEN <<file>>
    ELSE IF NameLess(file_name(file), file_name(files[1])) THEN <<file>> \o files
    ELSE <<files[1]>> \o InsertByName(Tail(files), file)

RECURSIVE sort_by_file_name(_)
\* files.sort_by(|a, b| a.file_name().cmp(&b.file_name())), a stable sort
sort_by_file_name(files) ==
    IF files = <<>> THEN <<>>
    ELSE InsertByName(sort_by_file_name(SubSeq(files, 1, Len(files) - 1)), files[Len(files)])

RECURSIVE DirectoryNode_sort(_)
\* DirectoryNode::sort
DirectoryNode_sort(node) ==
    [files |-> sort_by_file_name(node.files),
     subdirs |-> [k \in DOMAIN node.subdirs |-> DirectoryNode_sort(node.subdirs[k])]]

\* The predicates handed to tree_filtered and filter: every file, no file, the
\* loose files, the files named "2", the files not named "1".
Preds == {"all", "none", "loose", "only_2", "not_1"}

Holds(pred, file) ==
    IF pred = "all" THEN TRUE
    ELSE IF pred = "none" THEN FALSE
    ELSE IF pred = "loose" THEN is_loose(file)
    ELSE IF pred = "only_2" THEN file_name(file) = Some(<<50>>)
    ELSE file_name(file) # Some(<<49>>)

RECURSIVE DirectoryNode_filter_keep_subdirs(_, _)
\* As DirectoryNode_filter, had the emptied subdirectories been kept.
DirectoryNode_filter_keep_subdirs(node, pred) ==
    [files |-> SelectSeq(node.files, LAMBDA f : Holds(pred, f)),
     subdirs |-> [k \in DOMAIN node.subdirs |->
                     DirectoryNode_filter_keep_subdirs(node.subdirs[k], pred)]]

RECURSIVE DirectoryNode_filter_top_only(_, _)
\* As DirectoryNode_filter, had the subdirectories not been filtered themselves.
DirectoryNode_filter_top_only(node, pred) ==
    [files |-> SelectSeq(node.files, LAMBDA f : Holds(pred, f)),
     subdirs |-> [k \in {d \in DOMAIN node.subdirs :
                            \/ node.subdirs[d].files # <<>>
                            \/ DOMAIN node.subdirs[d].subdirs # {}} |-> node.subdirs[k]]]

RECURSIVE DirectoryNode_filter(_, _)
\* DirectoryNode::filter
DirectoryNode_filter(node, pred) ==
    LET kept == [k \in DOMAIN node.subdirs |-> DirectoryNode_filter(node.subdirs[k], pred)]
    IN  [files |-> SelectSeq(node.files, LAMBDA f : Holds(pred, f)),
         subdirs |-> [k \in {d \in DOMAIN kept :
                                kept[d].files # <<>> \/ DOMAIN kept[d].subdirs # {}} |->
                         kept[k]]]

\* VfsFile::parent_archive_name
parent_archive_name(entry) ==
    IF is_loose(entry) THEN None ELSE Path_file_name(entry.parent_archive.path)

\* VfsFile::parent_archive_path
parent_archive_path(entry) ==
    IF is_loose(entry) THEN None ELSE Some(entry.parent_archive.path)

\* The path of `entry` in the tree: under the name (relative) or the path of
\* its archive if it has one, else its key (relative) or its own path.
tree_path(key, entry, relative) ==
    LET parent == IF relative THEN parent_archive_name(entry) ELSE parent_archive_path(entry)
    IN  IF parent.kind = "None"
        THEN (IF relative THEN key ELSE VfsFile_path(entry))
        ELSE join(parent.value, key)

\* The keys of the nodes from the root's child down to the node of `parent`:
\* current_path after each component, without the ones equal to root_path.
tree_node_keys(parent, root_path) ==
    LET comps == Components(parent)
        paths == [i \in 1..Len(comps) |-> JoinComponents(SubSeq(comps, 1, i))]
    IN  SelectSeq(paths, LAMBDA cp : ~PathEq(cp, root_path))

\* path.parent().filter(|p| !p.as_os_str().is_empty()).unwrap_or(root_path)
tree_parent(path, root_path) ==
    IF Path_parent(path).kind = "None" \/ Path_parent(path).value = <<>>
    THEN root_path
    ELSE Path_parent(path).value

RECURSIVE push_file(_, _, _)
\* The walk down `keys`, making the nodes that are not there, and
\* current_node.files.push(file) at its end.
push_file(node, keys, file) ==
    IF keys = <<>> THEN [node EXCEPT !.files = Append(@, file)]
    ELSE
      LET k == keys[1]
          child == IF k \in DOMAIN node.subdirs THEN node.subdirs[k] ELSE DirectoryNode_new
          grown == push_file(child, Tail(keys), file)
      IN  [node EXCEPT !.subdirs =
              [d \in DOMAIN node.subdirs \cup {k} |-> IF d = k THEN grown ELSE node.subdirs[d]]]

\* The VfsFile the tree holds for an entry.
tree_file(path, entry) ==
    IF is_archive(entry)
    THEN VfsFile_from_archive(encode_utf8(to_string_lossy(path)), entry.parent_archive)
    ELSE VfsFile_from(VfsFile_path(entry))

RECURSIVE tree_insert_all(_, _, _, _, _)
\* The body of `for (key, entry) in &self.file_map`, over the keys in `order`.
tree_insert_all(node, fm, order, relative, root_path) ==
    IF order = <<>> THEN node
    ELSE
      LET key == order[1]
          entry == fm[key]
          path == tree_path(key, entry, relative)
          parent == tree_parent(path, root_path)
          keys == tree_node_keys(parent, root_path)
      IN  tree_insert_all(push_file(node, keys, tree_file(path, entry)),
                          fm, Tail(order), relative, root_path)

\* VFS::tree
VFS_tree(fm, order, relative) ==
    LET root_path == IF relative THEN DataFiles ELSE <<Slash>>
        root == tree_insert_all(DirectoryNode_new, fm, order, relative, root_path)
    IN  (root_path :> DirectoryNode_sort(root))

\* VFS::tree_filtered
VFS_tree_filtered(fm, order, relative, pred) ==
    LET t == VFS_tree(fm, order, relative)
    IN  [root_dir \in DOMAIN t |-> DirectoryNode_filter(t[root_dir], pred)]

\* The loose files of the projected VFS: "a/1", "a/b/2", "c/3", "x" under /A.
TreeLooseSets ==
    { {},
      { <<120>> },
      { <<97, 47, 49>>, <<97, 47, 98, 47, 50>> },
      { <<97, 47, 49>>, <<97, 47, 98, 47, 50>>, <<99, 47, 51>> },
      { <<97, 47, 98, 47, 50>>, <<120>> } }

\* "/R/Data Files"
ArchiveFileD == join(RootR, DataFiles)

\* The archive files of the projected VFS: none, the TES3 archive "/R/q"
\* storing "a\1" and "y", or the TES3 archive "/R/Data Files" storing "y".
TreeArchiveFiles == {<<>>, ArchiveFileQ, ArchiveFileD}

MakeTreeDisk(la, af) ==
    LET paths == {join(RootA, r) : r \in la} \cup (IF af = <<>> THEN {} ELSE {af})
    IN  [p \in paths |->
            IF p = ArchiveFileQ THEN ArchiveBody("TES3", TRUE, << <<97, 92, 49>>, <<121>> >>)
            ELSE IF p = ArchiveFileD THEN ArchiveBody("TES3", TRUE, << <<121>> >>)
            ELSE Data]

TreeDisks == {MakeTreeDisk(la, af) : la \in TreeLooseSets, af \in TreeArchiveFiles}

\* VFS::from_directories, from its call to its return, when the workers of
\* root r finish in the order orders[r].
from_directories(c, d, dirs, list, orders) ==
    LET m == ExtendPairs(EmptyMap,
                 CollectedPairs([r \in 1..Len(dirs) |-> WalkPairs(c, dirs[r], orders[r])]))
        handles == from_set(c, d, m, list)
        fm == ExtendPairs(EmptyMap, MapPairs(archives_file_map(c, handles)))
    IN  [map |-> m, archive_handles |-> handles,
         file_map |-> ExtendPairs(fm, MapPairs(m))]

\* A hand-made node: files "f1" "f2", a subdirectory "s" with the files "1" "2"
\* and the child "s/c" holding "2", and a subdirectory "e" holding nothing.
SampleNode ==
    [files |-> <<VfsFile_from(<<102, 49>>), VfsFile_from(<<102, 50>>)>>,
     subdirs |->
        (<<115>> :> [files |-> <<VfsFile_from(<<49>>), VfsFile_from(<<50>>)>>,
                     subdirs |-> (<<115, 47, 99>> :>
                                     [files |-> <<VfsFile_from(<<50>>)>>, subdirs |-> <<>>])])
        @@ (<<101>> :> DirectoryNode_new)]

\* ------------------------------------------------------------------------
\* The Arc<StoredArchive> handles: who holds one, and when the archive drops
\* ------------------------------------------------------------------------
\* Bound: the clones of one StoredArchive's Arc a caller holds at a time.
MaxClones == 1

\* The StoredArchives from_set opened.
Slots == 1..Len(archive_handles)

\* The file_map entries owning an Arc of StoredArchive s: file_map clones one
\* for every entry it makes, and the ArchiveList it was given drops on return.
map_refs(fm, s) ==
    Cardinality({k \in DOMAIN fm : is_archive(fm[k]) /\ fm[k].parent_archive.slot = s})

RECURSIVE node_refs(_, _)
RECURSIVE subdir_refs(_, _, _)
\* The VfsFiles at and under `node` whose ArchiveReference owns an Arc of
\* StoredArchive s.
node_refs(node, s) ==
    Cardinality({i \in 1..Len(node.files) :
                    is_archive(node.files[i]) /\ node.files[i].parent_archive.slot = s})
    + subdir_refs(node.subdirs, DOMAIN node.subdirs, s)

subdir_refs(subdirs, keys, s) ==
    IF keys = {} THEN 0
    ELSE LET k == CHOOSE x \in keys : TRUE
         IN  node_refs(subdirs[k], s) + subdir_refs(subdirs, keys \ {k}, s)

\* As tree_refs, had the tree's files borrowed the archive and owned no Arc.
tree_refs_none(roots, s) == 0

\* The Arcs of StoredArchive s a projected tree owns: tree() hands every
\* archived file it pushes the clone parent_archive_handle() made.
tree_refs(roots, s) == subdir_refs(roots, DOMAIN roots, s)

\* Arc's drop: the StoredArchive whose strong count fell to 0 is dropped, and
\* the File it owns is closed with it.
Released(rel, cnt) == rel \cup {s \in DOMAIN cnt : cnt[s] = 0}

\* The counts when from_directories returns: the VFS is the only owner.
ArcBuilt ==
    /\ vfs_alive = TRUE
    /\ handle_clones = [s \in Slots |-> 0]
    /\ strong = [s \in Slots |-> map_refs(file_map, s)]
    /\ released = Released({}, strong)

\* A VFS that from_directories has returned, and the order its file_map
\* iterates in.
TreeInit ==
    /\ crate = CrateNew
    /\ disk \in TreeDisks
    /\ search_dirs = <<RootR, RootA, RootB>>
    /\ archive_list = << <<113>>, DataFiles >>
    /\ pc = "done"
    /\ pending = [r \in 1..Len(search_dirs) |-> {}]
    /\ produced = [r \in 1..Len(search_dirs) |-> <<>>]
    /\ \E orders \in [1..Len(search_dirs) -> UNION {Orders(WalkDir(disk, dir)) :
                                                      dir \in {RootR, RootA, RootB}}] :
          /\ \A r \in 1..Len(search_dirs) : orders[r] \in Orders(WalkDir(disk, search_dirs[r]))
          /\ LET vfs == from_directories(crate, disk, search_dirs, archive_list, orders)
             IN  /\ map = vfs.map
                 /\ archive_handles = vfs.archive_handles
                 /\ file_map = vfs.file_map
    /\ iter_order \in Orders(DOMAIN file_map)
    /\ tree = <<>>
    /\ filtered = <<>>
    /\ node_before = <<>>
    /\ node_after = <<>>
    /\ node_pred = ""
    /\ ArcBuilt
    /\ NormIdle
    /\ IndexIdle
    /\ ReaderIdle

\* vfs.tree(relative)
Tree(relative) ==
    /\ vfs_alive
    /\ tree = <<>>
    /\ tree' = [relative |-> relative, roots |-> VFS_tree(file_map, iter_order, relative)]
    /\ strong' = [s \in Slots |-> strong[s] + tree_refs(tree'.roots, s)]
    /\ UNCHANGED <<crate, iter_order, filtered, node_before, node_after, node_pred>>
    /\ UNCHANGED <<vfs_alive, handle_clones, released>>
    /\ UNCHANGED not_tree_vars

\* vfs.tree_filtered(relative, pred), with the `relative` of the tree at hand
TreeFiltered(pred) ==
    /\ vfs_alive
    /\ tree # <<>>
    /\ filtered = <<>>
    /\ node_pred = ""
    /\ filtered' = [relative |-> tree.relative, pred |-> pred,
                    roots |-> VFS_tree_filtered(file_map, iter_order, tree.relative, pred)]
    /\ strong' = [s \in Slots |-> strong[s] + tree_refs(filtered'.roots, s)]
    /\ UNCHANGED <<crate, iter_order, tree, node_before, node_after, node_pred>>
    /\ UNCHANGED <<vfs_alive, handle_clones, released>>
    /\ UNCHANGED not_tree_vars

\* node.filter(&pred), in place, on the root node of the tree at hand or on
\* the hand-made node; the files it does not retain are dropped
Filter(pred) ==
    /\ tree # <<>>
    /\ filtered = <<>>
    /\ node_pred = ""
    /\ \/ /\ node_before' = SampleNode
          /\ node_after' = DirectoryNode_filter(SampleNode, pred)
          /\ UNCHANGED <<tree, strong, released>>
       \/ \E k \in DOMAIN tree.roots :
             /\ node_before' = tree.roots[k]
             /\ node_after' = DirectoryNode_filter(tree.roots[k], pred)
             /\ tree' = [tree EXCEPT !.roots[k] = node_after']
             /\ strong' = [s \in Slots |->
                    strong[s] - (tree_refs(tree.roots, s) - tree_refs(tree'.roots, s))]
             /\ released' = Released(released, strong')
    /\ node_pred' = pred
    /\ UNCHANGED <<crate, iter_order, filtered, vfs_alive, handle_clones>>
    /\ UNCHANGED not_tree_vars

TreeNext ==
    \/ \E relative \in BOOLEAN : Tree(relative)
    \/ \E pred \in Preds : TreeFiltered(pred)
    \/ \E pred \in Preds : Filter(pred)

TreeSpec == TreeInit /\ [][TreeNext]_vars

\* ------------------------------------------------------------------------
\* The owners of a built VFS's archives come and go
\* ------------------------------------------------------------------------
\* The disks of the VFS whose archives are followed: "m/x" and "x" or
\* nothing under /A, "/R/P" a TES3 archive storing "M\X" or absent, and
\* "/R/q" a TES3 archive storing "m/x" and "y" or an FO4 archive storing "x"
\* and "M\X".
ArcDisks ==
    { MakeDisk(la, {}, bp, bq) :
        la \in { {}, { <<109, 47, 120>>, <<120>> } },
        bp \in { ArchiveBody("TES3", TRUE, << <<77, 92, 88>> >>), Absent },
        bq \in { ArchiveBody("TES3", TRUE, << <<109, 47, 120>>, <<121>> >>),
                 ArchiveBody("FO4", TRUE, << <<120>>, <<77, 92, 88>> >>) } }

\* A VFS that from_directories has returned, its archives owned by its
\* file_map alone.
ArcInit ==
    /\ crate = CrateNew
    /\ disk \in ArcDisks
    /\ search_dirs = <<RootR, RootA, RootB>>
    /\ archive_list \in ArchiveLists
    /\ pc = "done"
    /\ pending = [r \in 1..Len(search_dirs) |-> {}]
    /\ produced = [r \in 1..Len(search_dirs) |-> <<>>]
    /\ \E orders \in [1..Len(search_dirs) -> UNION {Orders(WalkDir(disk, dir)) :
                                                      dir \in {RootR, RootA, RootB}}] :
          /\ \A r \in 1..Len(search_dirs) : orders[r] \in Orders(WalkDir(disk, search_dirs[r]))
          /\ LET vfs == from_directories(crate, disk, search_dirs, archive_list, orders)
             IN  /\ map = vfs.map
                 /\ archive_handles = vfs.archive_handles
                 /\ file_map = vfs.file_map
    /\ iter_order \in Orders(DOMAIN file_map)
    /\ tree = <<>>
    /\ filtered = <<>>
    /\ node_before = <<>>
    /\ node_after = <<>>
    /\ node_pred = ""
    /\ ArcBuilt
    /\ NormIdle
    /\ IndexIdle
    /\ ReaderIdle

\* drop(vfs): every VfsFile of file_map drops, and its Arc with it
DropVfs ==
    /\ vfs_alive
    /\ vfs_alive' = FALSE
    /\ file_map' = EmptyMap
    /\ strong' = [s \in Slots |-> strong[s] - map_refs(file_map, s)]
    /\ released' = Released(released, strong')
    /\ UNCHANGED <<crate, disk, search_dirs, archive_list, pc, pending, produced, map,
                   archive_handles, handle_clones>>
    /\ UNCHANGED <<norm_vars, reader_vars, tree_vars, index_vars>>

\* drop(tree): every VfsFile of the tree drops, and its Arc with it
DropTree ==
    /\ tree # <<>>
    /\ tree' = <<>>
    /\ strong' = [s \in Slots |-> strong[s] - tree_refs(tree.roots, s)]
    /\ released' = Released(released, strong')
    /\ UNCHANGED <<crate, iter_order, filtered, node_before, node_after, node_pred>>
    /\ UNCHANGED <<vfs_alive, handle_clones>>
    /\ UNCHANGED not_tree_vars

\* file.parent_archive_handle() on a file of the VFS or of the tree, or
\* Arc::clone of a handle the caller holds already
CloneHandle(s) ==
    /\ handle_clones[s] < MaxClones
    /\ \/ vfs_alive /\ map_refs(file_map, s) > 0
       \/ tree # <<>> /\ node_refs([files |-> <<>>, subdirs |-> tree.roots], s) > 0
       \/ handle_clones[s] > 0
    /\ handle_clones' = [handle_clones EXCEPT ![s] = @ + 1]
    /\ strong' = [strong EXCEPT ![s] = @ + 1]
    /\ UNCHANGED <<crate, vfs_alive, released>>
    /\ UNCHANGED <<vfs_vars, norm_vars, reader_vars, tree_vars, index_vars>>

\* drop of a handle the caller holds
DropHandle(s) ==
    /\ handle_clones[s] > 0
    /\ handle_clones' = [handle_clones EXCEPT ![s] = @ - 1]
    /\ strong' = [strong EXCEPT ![s] = @ - 1]
    /\ released' = Released(released, strong')
    /\ UNCHANGED <<crate, vfs_alive>>
    /\ UNCHANGED <<vfs_vars, norm_vars, reader_vars, tree_vars, index_vars>>

ArcNext ==
    \/ \E relative \in BOOLEAN : Tree(relative)
    \/ \E pred \in Preds : Filter(pred)
    \/ DropVfs
    \/ DropTree
    \/ \E s \in Slots : CloneHandle(s)
    \/ \E s \in Slots : DropHandle(s)

ArcSpec == ArcInit /\ [][ArcNext]_vars

\* ------------------------------------------------------------------------
\* A directory is appended to a VFS that did not walk it (src/src/vfs.rs)
\* ------------------------------------------------------------------------
\* A VFS of the crate "vfstool": one that from_directories built from /R and
\* /A alone, or the empty one of VFS::new().
AppendInit ==
    /\ crate = CrateOld
    /\ disk \in Disks
    /\ pc = "done"
    /\ \/ /\ search_dirs = <<RootR, RootA>>
          /\ archive_list \in ArchiveLists
          /\ \E orders \in [1..Len(search_dirs) -> UNION {Orders(WalkDir(disk, dir)) :
                                                            dir \in {RootR, RootA}}] :
                /\ \A r \in 1..Len(search_dirs) :
                      orders[r] \in Orders(WalkDir(disk, search_dirs[r]))
                /\ LET vfs == from_directories(crate, disk, search_dirs, archive_list, orders)
                   IN  /\ map = vfs.map
                       /\ archive_handles = vfs.archive_handles
                       /\ file_map = vfs.file_map
       \/ /\ search_dirs = <<>>
          /\ archive_list = <<>>
          /\ map = EmptyMap
          /\ archive_handles = <<>>
          /\ file_map = EmptyMap
    /\ pending = [r \in 1..Len(search_dirs) |-> {}]
    /\ produced = [r \in 1..Len(search_dirs) |-> <<>>]
    /\ NormIdle
    /\ IndexIdle
    /\ ReaderIdle
    /\ TreeIdle
    /\ ArcIdle

AppendNext ==
    \/ \E dir \in {RootA, RootB} : add_directory(dir)
    \/ add_directories(<<RootB, RootA>>)

AppendSpec == AppendInit /\ [][AppendNext]_vars

\* ------------------------------------------------------------------------
\* The paths the lookups are asked about
\* ------------------------------------------------------------------------
\* "M/X" "m/x" "M\X" "m\x" "x" "X" "y" "Y" "z" "P" "p"
RelProbes ==
    { <<77, 47, 88>>, <<109, 47, 120>>, <<77, 92, 88>>, <<109, 92, 120>>,
      <<120>>, <<88>>, <<121>>, <<89>>, <<122>>, <<80>>, <<112>> }

\* The on-disk paths a loose file can have, and the same in lower case.
AbsProbes ==
    LET onDisk == {join(root, rel) : root \in {RootA, RootB}, rel \in LooseRel}
                  \cup {ArchiveFileP, ArchiveFileQ}
    IN  onDisk \cup {to_ascii_lowercase(p) : p \in onDisk}

Probes == RelProbes \cup AbsProbes

\* ------------------------------------------------------------------------
\* <VFS as Index<&str>>::index
\* ------------------------------------------------------------------------
\* <VfsFile as Default>::default: a Loose file with the empty path
VfsFile_default == VfsFile_from(<<>>)

\* As VFS_index, had the index been looked up as given.
VFS_index_as_given(c, fm, index) ==
    IF MapHas(fm, index)
    THEN [place |-> "file_map", key |-> CHOOSE k \in DOMAIN fm : PathEq(k, index)]
    ELSE [place |-> "DEFAULT_FILE", key |-> <<>>]

\* Where the reference vfs[index] returns points: at the value of a key of
\* file_map, or at the static DEFAULT_FILE.
VFS_index(c, fm, index) ==
    LET normalized_path == crate_normalize_path(c, index)
    IN  IF MapHas(fm, normalized_path)
        THEN [place |-> "file_map", key |-> CHOOSE k \in DOMAIN fm : PathEq(k, normalized_path)]
        ELSE [place |-> "DEFAULT_FILE", key |-> <<>>]

\* A VFS that from_directories has returned, in a process that has not
\* indexed any VFS yet.
IndexInit ==
    /\ crate \in Crates
    /\ disk \in ArcDisks
    /\ search_dirs = <<RootR, RootA, RootB>>
    /\ archive_list \in ArchiveLists
    /\ pc = "done"
    /\ pending = [r \in 1..Len(search_dirs) |-> {}]
    /\ produced = [r \in 1..Len(search_dirs) |-> <<>>]
    /\ \E orders \in [1..Len(search_dirs) -> UNION {Orders(WalkDir(disk, dir)) :
                                                      dir \in {RootR, RootA, RootB}}] :
          /\ \A r \in 1..Len(search_dirs) : orders[r] \in Orders(WalkDir(disk, search_dirs[r]))
          /\ LET vfs == from_directories(crate, disk, search_dirs, archive_list, orders)
             IN  /\ map = vfs.map
                 /\ archive_handles = vfs.archive_handles
                 /\ file_map = vfs.file_map
    /\ IndexIdle
    /\ NormIdle
    /\ ReaderIdle
    /\ TreeIdle
    /\ ArcIdle

\* &vfs[s]
Index(s) ==
    /\ pc = "done"
    /\ index_arg' = s
    /\ LET at == VFS_index(crate, file_map, s)
       IN  /\ DEFAULT_FILE' = IF at.place = "DEFAULT_FILE" /\ DEFAULT_FILE = None
                              THEN Some(VfsFile_default)
                              ELSE DEFAULT_FILE
           /\ index_ret' = [place |-> at.place, key |-> at.key,
                            file |-> IF at.place = "file_map" THEN file_map[at.key]
                                     ELSE DEFAULT_FILE'.value]
    /\ UNCHANGED <<crate, vfs_vars, norm_vars, reader_vars, tree_vars, arc_vars>>

IndexNext == \E s \in Probes : Index(s)

IndexSpec == IndexInit /\ [][IndexNext]_vars

\* ------------------------------------------------------------------------
\* <DirectoryNode as Serialize>::serialize (src/src/directory_node.rs)
\* ------------------------------------------------------------------------
\* OsStr::to_str: Some for valid UTF-8 only
to_str(bytes) ==
    IF encode_utf8(to_string_lossy(bytes)) = bytes THEN Some(bytes) ELSE None

\* VfsFile::file_name of src/src/vfs_file.rs: path.file_name()?.to_str()
file_name_str(file) ==
    LET name == Path_file_name(VfsFile_path(file))
    IN  IF name = None THEN None ELSE to_str(name.value)

\* The order of Component: RootDir, CurDir, ParentDir, then Normal by bytes.
ComponentRank(c) ==
    IF c = <<Slash>> THEN 0 ELSE IF c = <<46>> THEN 1 ELSE IF c = <<46, 46>> THEN 2 ELSE 3

ComponentLess(a, b) ==
    \/ ComponentRank(a) < ComponentRank(b)
    \/ ComponentRank(a) = 3 /\ ComponentRank(b) = 3 /\ BytesLess(a, b)

RECURSIVE ComponentsLess(_, _)
ComponentsLess(a, b) ==
    IF b = <<>> THEN FALSE
    ELSE IF a = <<>> THEN TRUE
    ELSE IF a[1] # b[1] THEN ComponentLess(a[1], b[1])
    ELSE ComponentsLess(Tail(a), Tail(b))

\* Ord for PathBuf, the order a BTreeMap<PathBuf, _> iterates in
PathLess(a, b) == ComponentsLess(Components(a), Components(b))

RECURSIVE BTreeMap_keys(_)
\* The keys of a BTreeMap in iteration order.
BTreeMap_keys(keys) ==
    IF keys = {} THEN <<>>
    ELSE LET least == CHOOSE k \in keys : \A o \in keys \ {k} : PathLess(k, o)
         IN  <<least>> \o BTreeMap_keys(keys \ {least})

RECURSIVE filter_map_some(_)
\* The Some values of a sequence of options, in order (filter_map).
filter_map_some(opts) ==
    IF opts = <<>> THEN <<>>
    ELSE IF opts[1] = None THEN filter_map_some(Tail(opts))
    ELSE <<opts[1].value>> \o filter_map_some(Tail(opts))

\* dir_name.file_name().unwrap_or_default().to_string_lossy(), as UTF-8 bytes
dir_key(dir_name) ==
    LET name == Path_file_name(dir_name)
    IN  encode_utf8(to_string_lossy(IF name = None THEN <<>> ELSE name.value))

RECURSIVE DirectoryNode_serialize_dot_always(_)
\* As DirectoryNode_serialize, had "." been emitted for a node without files too.
DirectoryNode_serialize_dot_always(node) ==
    LET dot == << [key |-> <<46>>,
                   names |-> filter_map_some(
                                 [i \in 1..Len(node.files) |-> file_name_str(node.files[i])])] >>
        dirs == BTreeMap_keys(DOMAIN node.subdirs)
    IN  dot \o [i \in 1..Len(dirs) |->
                   [key |-> dir_key(dirs[i]),
                    entries |-> DirectoryNode_serialize_dot_always(node.subdirs[dirs[i]])]]

RECURSIVE DirectoryNode_serialize(_)
\* The entries serialize hands to the serializer's map, in order: "." with
\* the file names when there is a file, then one entry per subdirectory.
DirectoryNode_serialize(node) ==
    LET dot == IF node.files = <<>> THEN <<>>
               ELSE << [key |-> <<46>>,
                        names |-> filter_map_some(
                                      [i \in 1..Len(node.files) |-> file_name_str(node.files[i])])] >>
        dirs == BTreeMap_keys(DOMAIN node.subdirs)
    IN  dot \o [i \in 1..Len(dirs) |->
                   [key |-> dir_key(dirs[i]),
                    entries |-> DirectoryNode_serialize(node.subdirs[dirs[i]])]]

\* A node a walk of a Unix directory gives: the files "b", one whose name is
\* the single byte 0xFF, and "a", in that order.
ByteNamedNode ==
    [files |-> <<VfsFile_from(<<98>>), VfsFile_from(<<255>>), VfsFile_from(<<97>>)>>,
     subdirs |-> <<>>]

\* ------------------------------------------------------------------------
\* Archives of the three families are ingested and their entries opened
\* ------------------------------------------------------------------------
RECURSIVE SetToSeq(_)
\* The elements of a set in one order.
SetToSeq(S) ==
    IF S = {} THEN <<>>
    ELSE LET x == CHOOSE e \in S : TRUE IN <<x>> \o SetToSeq(S \ {x})

\* The names of the keys data.iter() yields in archives::file_map. A TES3 and
\* an FO4 archive map file keys to files; a TES4 archive maps directory keys
\* to directories, which map file keys to files (open() looks a file up with
\* archive.get(&dir_key) and then dir.get(&file_key)).
Archive_iter_names(archive) ==
    IF archive.format = "TES4"
    THEN SetToSeq({dir.name : dir \in archive.dirs})
    ELSE SetToSeq({file.name : file \in archive.files})

\* The TES4 archive "/R/q": directory "m" with the files "x", stored raw, and
\* "y", stored compressed.
IngestedTes4 ==
    [path |-> ArchiveFileQ,
     archive |-> [format |-> "TES4",
                  dirs |-> {[name |-> <<109>>,
                             files |-> {[name |-> <<120>>, compressed |-> FALSE,
                                         decompresses |-> TRUE, bytes |-> <<1, 2>>],
                                        [name |-> <<121>>, compressed |-> TRUE,
                                         decompresses |-> TRUE, bytes |-> <<3>>]}]}]]

\* The Arc<StoredArchive> from_set pushes for an archive it opened.
StoredArchive_handle(slot, stored) ==
    [slot |-> slot, path |-> stored.path, format |-> stored.archive.format,
     names |-> Archive_iter_names(stored.archive), archive |-> stored.archive]

\* The lists of archives from_set has opened.
IngestedLists ==
    { <<StoredTes3>>, <<IngestedTes4>>, <<StoredFo4(<< <<1, 2>>, <<>>, <<3>> >>)>>,
      <<StoredTes3, IngestedTes4>>, <<StoredTes3, StoredFo4(<< <<1>>, <<2>>, <<3>> >>)>> }

\* from_directories has walked /R, where the archive files lie, and from_set
\* has opened the listed archives.
IngestInit ==
    /\ crate = CrateNew
    /\ \E list \in IngestedLists :
          /\ archive_handles = [i \in 1..Len(list) |-> StoredArchive_handle(i, list[i])]
          /\ disk = [p \in {list[i].path : i \in 1..Len(list)} |->
                        [kind |-> "data", bytes |-> <<66, 83, 65>>]]
          /\ archive_list = [i \in 1..Len(list) |-> strip_prefix_or(list[i].path, RootR)]
    /\ search_dirs = <<RootR>>
    /\ pc = "ingest"
    /\ pending = [r \in 1..Len(search_dirs) |-> {}]
    /\ produced = [r \in 1..Len(search_dirs) |-> <<>>]
    /\ map = ExtendPairs(EmptyMap,
                 [i \in 1..Len(archive_handles) |->
                     directory_contents_to_file_map(crate, RootR, archive_handles[i].path)])
    /\ file_map = EmptyMap
    /\ ReaderIdle
    /\ NormIdle
    /\ IndexIdle
    /\ TreeIdle
    /\ ArcIdle

\* let file = vfs.get_file(k).unwrap(), for a key k of the map
GetEntry(k) ==
    /\ pc = "done"
    /\ vfs_file = <<>>
    /\ vfs_file' = file_map[k]
    /\ current_chunk' = None
    /\ cursor' = [data |-> <<>>, pos |-> 0]
    /\ UNCHANGED <<crate, open_result, chunks, position, delivered, buf_len, read_ret, reads>>
    /\ UNCHANGED not_reader_vars

IngestNext ==
    \/ ExtendArchives
    \/ ExtendLoose
    \/ \E k \in DOMAIN file_map : GetEntry(k)
    \/ Open
    \/ \E n \in 0..MaxBuf : Read(n)

IngestSpec == IngestInit /\ [][IngestNext]_vars

\* ------------------------------------------------------------------------
\* What the disk and the opened archives hold, for stating the claims
\* ------------------------------------------------------------------------
\* The keys of the regular files under data root r.
DiskKeys(r) ==
    {crate_normalize_path(crate, strip_prefix_or(p, search_dirs[r])) :
        p \in WalkDir(disk, search_dirs[r])}

LooseKeys == UNION {DiskKeys(r) : r \in RootIdx}

\* The data roots holding a file of key k.
RootsWith(k) == {r \in RootIdx : \E key \in DiskKeys(r) : PathEq(key, k)}

\* The keys of the names stored in the i-th opened archive.
HandleKeys(i) ==
    {crate_normalize_path(crate, archive_handles[i].names[j]) :
        j \in 1..Len(archive_handles[i].names)}

ArchiveKeys == UNION {HandleKeys(i) : i \in 1..Len(archive_handles)}

\* The opened archives storing a name of key k.
HandlesWith(k) ==
    {i \in 1..Len(archive_handles) : \E key \in HandleKeys(i) : PathEq(key, k)}

Max(S) == CHOOSE x \in S : \A y \in S : y <= x

InLoose(k) == \E l \in LooseKeys : PathEq(l, k)

InArchives(k) == \E a \in ArchiveKeys : PathEq(a, k)

\* C1: once from_directories has returned, a key that both a file under a
\* data root and a name in an opened archive produce is bound to the Loose file.
C1_LooseOverArchive ==
    pc = "done" =>
        \A k \in LooseKeys :
            InArchives(k) => is_loose(get_file(crate, file_map, k))

C1_Witness ==
    /\ pc = "done"
    /\ \E k \in LooseKeys :
          InArchives(k) /\ is_loose(get_file(crate, file_map, k))

\* C2: once from_directories has returned, every key found under the data
\* roots is bound to a file of the last data root that holds the key, however
\* the workers interleaved.
C2_LastRootWins ==
    pc = "done" =>
        \A k \in LooseKeys :
            LET f == get_file(crate, file_map, k)
                last == search_dirs[Max(RootsWith(k))]
            IN  /\ is_loose(f)
                /\ VfsFile_path(f) \in WalkDir(disk, last)
                /\ PathEq(crate_normalize_path(crate, strip_prefix_or(VfsFile_path(f), last)), k)

C2_Witness ==
    /\ pc = "done"
    /\ \E k \in LooseKeys :
          /\ RootsWith(k) = {2, 3}
          /\ Cardinality({p \in WalkDir(disk, search_dirs[3]) :
                 PathEq(crate_normalize_path(crate, strip_prefix_or(p, search_dirs[3])), k)}) = 2
          /\ starts_with(VfsFile_path(get_file(crate, file_map, k)), search_dirs[3])

\* C3: once from_directories has returned, a key that opened archives store
\* and no data root holds is bound to an Archived file whose parent is the
\* last opened archive that stores the key.
C3_LastArchiveWins ==
    pc = "done" =>
        \A k \in ArchiveKeys :
            ~InLoose(k) =>
                LET f == get_file(crate, file_map, k)
                IN  /\ is_archive(f)
                    /\ f.parent_archive = archive_handles[Max(HandlesWith(k))]

C3_Witness ==
    /\ pc = "done"
    /\ \E k \in ArchiveKeys :
          /\ ~InLoose(k)
          /\ Cardinality(HandlesWith(k)) = 2
          /\ get_file(crate, file_map, k).parent_archive = archive_handles[2]

\* C4: in every state, every key of the file map (and of the intermediate
\* loose map) is its own normalization.
C4_KeysNormalized ==
    /\ \A k \in DOMAIN file_map : crate_normalize_path(crate, k) = k
    /\ \A k \in DOMAIN map : crate_normalize_path(crate, k) = k

C4_Witness ==
    /\ pc = "appended"
    /\ \E k1, k2 \in DOMAIN file_map :
          /\ is_loose(file_map[k1])
          /\ strip_prefix_or(VfsFile_path(file_map[k1]), RootA) # k1
          /\ starts_with(VfsFile_path(file_map[k1]), RootA)
          /\ is_archive(file_map[k2])

\* C5: normalizing a normalized path changes nothing, in either crate.
C5_Idempotent == norm_step = 2 => norm_twice = norm_once

C5_Witness ==
    /\ norm_step = 2
    /\ norm_once # norm_input
    /\ norm_twice = norm_once

\* The byte the specification's Path Normalizer gives for byte b.
SpecByte(b) ==
    IF b = 92 THEN 47 ELSE IF b >= 65 /\ b <= 90 THEN b + 32 ELSE b

ByteByByte(input, output) ==
    /\ Len(output) = Len(input)
    /\ \A i \in 1..Len(input) : output[i] = SpecByte(input[i])

\* C6: normalize_path keeps the length of its input, turns 0x5C into 0x2F and
\* 'A'..'Z' into 'a'..'z', and leaves every other byte as it is.
C6_ByteByByte == norm_step >= 1 => ByteByByte(norm_input, norm_once)

\* C6 for the normalize_path of src/dw_vfs_lib/src/lib.rs alone.
C6_ByteByByte_dw_vfs_lib ==
    (norm_step >= 1 /\ crate = CrateNew) => ByteByByte(norm_input, norm_once)

Built == pc \in {"done", "appended"}

\* C7: get_file(p) is the entry under the key normalize_path(p) when the map
\* has that key and None otherwise, so paths of one normalization get one
\* entry.
C7_GetFileByNormalizedKey ==
    Built =>
        \A p \in Probes :
            LET n == crate_normalize_path(crate, p)
                keys == {k \in DOMAIN file_map : PathEq(k, n)}
            IN  /\ \A k \in keys : get_file(crate, file_map, p) = file_map[k]
                /\ keys = {} => get_file(crate, file_map, p) = None
                /\ \A q \in Probes :
                      crate_normalize_path(crate, q) = n =>
                          get_file(crate, file_map, q) = get_file(crate, file_map, p)

\* "M\X" and "m/x" find one entry, "z" finds none.
C7_Witness ==
    /\ pc = "done"
    /\ get_file(crate, file_map, <<77, 92, 88>>) # None
    /\ get_file(crate, file_map, <<77, 92, 88>>) = get_file(crate, file_map, <<109, 47, 120>>)
    /\ get_file(crate, file_map, <<122>>) = None

\* has_file, has_normalized_file and has_normalized_not_exact are methods of
\* the VFS of vfstool_lib.
BuiltNew == pc = "done" /\ crate = CrateNew

\* C8: has_normalized_not_exact(p) implies has_normalized_file(p) and not
\* has_file(p).
C8_NotExactImplies ==
    BuiltNew =>
        \A p \in Probes :
            has_normalized_not_exact(file_map, p) =>
                has_normalized_file(file_map, p) /\ ~has_file(file_map, p)

\* C9: has_file(p) implies has_normalized_file(p).
C9_HasFileImpliesNormalized ==
    BuiltNew =>
        \A p \in Probes : has_file(file_map, p) => has_normalized_file(file_map, p)

\* has_file holds of the on-disk path of a loose entry and of the stored name
\* of an archived entry.
C9_Witness ==
    /\ BuiltNew
    /\ \E k1, k2 \in DOMAIN file_map :
          /\ is_loose(file_map[k1])
          /\ VfsFile_path(file_map[k1]) # k1
          /\ has_file(file_map, VfsFile_path(file_map[k1]))
          /\ is_archive(file_map[k2])
          /\ VfsFile_path(file_map[k2]) # k2
          /\ has_file(file_map, VfsFile_path(file_map[k2]))

\* The data roots proper (search_dirs without the archive directory).
DataRootIdx == {r \in RootIdx : search_dirs[r] # RootR}

\* The key of the file at on-disk path p under data root r.
KeyOf(r, p) == crate_normalize_path(crate, strip_prefix_or(p, search_dirs[r]))

\* C10: has_normalized_not_exact(p) holds iff some entry's key ends
\* normalize_path(p) and that entry's path() is not p; it is false for the
\* on-disk path of a loose file that holds its key when no other key ends the
\* path, and true for the on-disk path of a file whose key a later data root
\* took.
C10_NotExact ==
    BuiltNew =>
        /\ \A p \in Probes :
              has_normalized_not_exact(file_map, p) <=>
                  \E k \in DOMAIN file_map :
                      /\ ends_with(normalize_path(p), k)
                      /\ ~PathEq(VfsFile_path(file_map[k]), p)
        /\ \A k \in DOMAIN file_map :
              (/\ is_loose(file_map[k])
               /\ \A k2 \in DOMAIN file_map :
                     ends_with(normalize_path(VfsFile_path(file_map[k])), k2) => k2 = k)
              => ~has_normalized_not_exact(file_map, VfsFile_path(file_map[k]))
        /\ \A r \in DataRootIdx : \A p \in WalkDir(disk, search_dirs[r]) :
              (\E r2 \in DataRootIdx : r2 > r /\ KeyOf(r, p) \in DiskKeys(r2))
              => has_normalized_not_exact(file_map, p)

\* "/A/M/X" lost its key to "/B/m/x", and "/B/m/x" holds it with no other key
\* ending its path.
C10_Witness ==
    /\ BuiltNew
    /\ join(RootA, <<77, 47, 88>>) \in DOMAIN disk
    /\ has_normalized_not_exact(file_map, join(RootA, <<77, 47, 88>>))
    /\ VfsFile_path(get_file(crate, file_map, <<109, 47, 120>>)) = join(RootB, <<109, 47, 120>>)
    /\ ~has_normalized_not_exact(file_map, join(RootB, <<109, 47, 120>>))

\* C11 as stated: has_file(p) holds iff some entry's path(), as stored, equals
\* normalize_path(p).
C11_HasFileRawPath ==
    BuiltNew =>
        \A p \in Probes :
            has_file(file_map, p) <=>
                \E k \in DOMAIN file_map :
                    PathEq(VfsFile_path(file_map[k]), normalize_path(p))

\* C11 amended: has_file(p) holds iff some entry's path(), normalized, equals
\* normalize_path(p); so it holds of every entry's path() and of its
\* lower-case spelling, and not of the on-disk path of a file that lost its
\* key to another root.
C11_HasFileNormalizedPath ==
    BuiltNew =>
        /\ \A p \in Probes :
              has_file(file_map, p) <=>
                  \E k \in DOMAIN file_map :
                      PathEq(normalize_path(VfsFile_path(file_map[k])), normalize_path(p))
        /\ \A k \in DOMAIN file_map :
              /\ has_file(file_map, VfsFile_path(file_map[k]))
              /\ has_file(file_map, to_ascii_lowercase(VfsFile_path(file_map[k])))
        /\ \A r \in DataRootIdx : \A p \in WalkDir(disk, search_dirs[r]) :
              (/\ KeyOf(r, p) \in DOMAIN file_map
               /\ is_loose(file_map[KeyOf(r, p)])
               /\ ~starts_with(VfsFile_path(file_map[KeyOf(r, p)]), search_dirs[r]))
              => ~has_file(file_map, p)

\* "/B/M/X" holds the key "m/x": has_file is true of "/B/M/X" and of "/b/m/x",
\* and false of "/A/M/X", which lost the key.
C11_Witness ==
    /\ BuiltNew
    /\ join(RootA, <<77, 47, 88>>) \in DOMAIN disk
    /\ join(RootB, <<77, 47, 88>>) \in DOMAIN disk
    /\ has_file(file_map, join(RootB, <<77, 47, 88>>))
    /\ has_file(file_map, to_ascii_lowercase(join(RootB, <<77, 47, 88>>)))
    /\ ~has_file(file_map, join(RootA, <<77, 47, 88>>))

\* The intra-archive path of an archived file is not in its parent archive:
\* the TES3 or FO4 key is missing, or the TES4 directory key or file key is.
KeyMissing(file) ==
    /\ is_archive(file)
    /\ LET parent == file.parent_archive.archive
       IN  IF parent.format = "TES4"
           THEN \/ tes4_keys(file.path).result # "Ok"
                \/ \A dir \in Archive_get(parent.dirs, tes4_keys(file.path).dir_key) :
                      Archive_get(dir.files, tes4_keys(file.path).file_key) = {}
           ELSE Archive_get(parent.files, file.path) = {}

Opened == open_result # <<>>

\* C12: open() on an archived VfsFile whose path is not in its parent archive
\* returns the error NotFound; it does not panic.
C12_MissingKeyIsNotFound ==
    (Opened /\ KeyMissing(vfs_file)) => open_result = Err("NotFound")

\* open() returned an Fo4FileReader.
IsFo4 == Opened /\ open_result.result = "Ok" /\ open_result.reader = "Fo4FileReader"

\* c1 ++ ... ++ cn of the FO4 file behind the reader.
AllChunks == Flatten(OpenedFo4File(vfs_file).chunks)

\* C13: whatever the buffer sizes, the bytes an FO4 reader has delivered are
\* the first bytes of c1 ++ ... ++ cn, in order, and when a read into a
\* non-empty buffer returns 0 they are all of c1 ++ ... ++ cn.
C13_Fo4RoundTrip ==
    IsFo4 =>
        /\ Len(delivered) <= Len(AllChunks)
        /\ delivered = SubSeq(AllChunks, 1, Len(delivered))
        /\ (reads > 0 /\ buf_len > 0 /\ read_ret = 0) => delivered = AllChunks

\* The chunks <<1, 2>>, <<>>, <<3>> read to the end in two reads and a third
\* that returns 0.
C13_Witness ==
    /\ IsFo4
    /\ OpenedFo4File(vfs_file).chunks = << <<1, 2>>, <<>>, <<3>> >>
    /\ reads = 3
    /\ buf_len > 0
    /\ read_ret = 0
    /\ delivered = <<1, 2, 3>>

\* C14: a read on an FO4 reader returns min(buf.len(), bytes not yet
\* delivered), so it crosses chunk boundaries and returns 0 once everything
\* has been delivered.
C14_Fo4ReadCount ==
    (IsFo4 /\ reads > 0) =>
        read_ret = Min(buf_len, Len(AllChunks) - (Len(delivered) - read_ret))

\* One read with a buffer of 4 over the chunks <<1>>, <<2>>, <<3>> returns 3.
C14_Witness ==
    /\ IsFo4
    /\ OpenedFo4File(vfs_file).chunks = << <<1>>, <<2>>, <<3>> >>
    /\ reads = 1
    /\ buf_len = 4
    /\ read_ret = 3
    /\ delivered = <<1, 2, 3>>

\* from_set has run.
Resolved == pc \in {"ingest", "overlay", "done", "appended"}

\* The file at `path` is an archive whose header names a format the crate
\* reads and whose directory decodes.
Readable(path) ==
    /\ disk[path].kind = "archive"
    /\ disk[path].decodes
    /\ disk[path].format \in (IF crate = CrateNew THEN {"TES3", "TES4", "FO4"} ELSE {"TES3"})

\* The archive files a listed name stands for: those whose key in the
\* intermediate loose map is the normalized name, and that open and decode.
NamedArchives(name) ==
    {VfsFile_path(map[k]) : k \in {k2 \in DOMAIN map :
        /\ PathEq(k2, crate_normalize_path(crate, name))
        /\ Readable(VfsFile_path(map[k2]))}}

\* C15: an archive name is normalized (ASCII lower case, '\' to '/') before
\* the lookup in the intermediate loose map, so a name that differs from the
\* archive file's key in case or separator style still resolves to it.
C15_ListedNameResolves ==
    Resolved =>
        \A i \in 1..Len(archive_list) :
            \A path \in NamedArchives(archive_list[i]) :
                \E h \in 1..Len(archive_handles) : archive_handles[h].path = path

\* The listed archives that survive: the name has a file in the intermediate
\* loose map and that file opens, has a known header and decodes.
Survivors == {i \in 1..Len(archive_list) : NamedArchives(archive_list[i]) # {}}

SurvivorRank(i) == Cardinality({j \in Survivors : j <= i})

SurvivorPath(i) == CHOOSE path \in NamedArchives(archive_list[i]) : TRUE

\* C16: archives::from_set keeps exactly the listed archives that are found,
\* open and decode, in input order; every other one is skipped and no entry of
\* the finished VFS comes from it.
C16_BadArchivesSkipped ==
    /\ Resolved =>
          /\ Len(archive_handles) = Cardinality(Survivors)
          /\ \A i \in Survivors :
                /\ archive_handles[SurvivorRank(i)].path = SurvivorPath(i)
                /\ archive_handles[SurvivorRank(i)].names = disk[SurvivorPath(i)].names
    /\ pc = "done" =>
          \A k \in DOMAIN file_map :
              is_archive(file_map[k]) =>
                  \E i \in Survivors :
                      /\ file_map[k].parent_archive.path = SurvivorPath(i)
                      /\ \E j \in 1..Len(disk[SurvivorPath(i)].names) :
                            disk[SurvivorPath(i)].names[j] = VfsFile_path(file_map[k])

\* "/R/P" has no known header and is skipped; "/R/q", listed after it, is the
\* only handle and an entry of the VFS comes from it.
C16_Witness ==
    /\ pc = "done"
    /\ ArchiveFileP \in DOMAIN disk
    /\ disk[ArchiveFileP].format = "unknown"
    /\ Len(archive_handles) = 1
    /\ archive_handles[1].path = ArchiveFileQ
    /\ \E k \in DOMAIN file_map : is_archive(file_map[k])

RECURSIVE NodesOf(_)
\* A node and every node below it.
NodesOf(node) ==
    {node} \cup UNION {NodesOf(node.subdirs[k]) : k \in DOMAIN node.subdirs}

\* C17: tree_filtered(r, always true) is tree(r), node by node and file by
\* file, and tree_filtered(r, always false) has the root of tree(r) and no file
\* at any node left, for r true and r false.
C17_FilterTrueFalse ==
    (tree # <<>> /\ filtered # <<>>) =>
        /\ filtered.pred = "all" => filtered.roots = tree.roots
        /\ filtered.pred = "none" =>
              /\ DOMAIN filtered.roots = DOMAIN tree.roots
              /\ \A k \in DOMAIN filtered.roots :
                    \A n \in NodesOf(filtered.roots[k]) : n.files = <<>>

\* tree(true) has the nodes "a", "a/b" and "c" with a file in each, and
\* tree_filtered(true, always true) is the same.
C17_Witness ==
    /\ tree # <<>>
    /\ filtered # <<>>
    /\ tree.relative
    /\ filtered.pred = "all"
    /\ DOMAIN tree.roots[DataFiles].subdirs = {<<97>>, <<99>>}
    /\ DOMAIN filtered.roots[DataFiles].subdirs[<<97>>].subdirs = {<<97, 47, 98>>}
    /\ Len(filtered.roots[DataFiles].subdirs[<<97>>].subdirs[<<97, 47, 98>>].files) = 1

RECURSIVE HasMatch(_, _)
\* Some file in the subtree of `node` satisfies pred.
HasMatch(node, pred) ==
    \/ \E i \in 1..Len(node.files) : Holds(pred, node.files[i])
    \/ \E k \in DOMAIN node.subdirs : HasMatch(node.subdirs[k], pred)

RECURSIVE Filtered(_, _, _)
\* `after` is `before` filtered by pred, at every depth.
Filtered(before, after, pred) ==
    /\ after.files = SelectSeq(before.files, LAMBDA f : Holds(pred, f))
    /\ DOMAIN after.subdirs = {k \in DOMAIN before.subdirs : HasMatch(before.subdirs[k], pred)}
    /\ \A k \in DOMAIN after.subdirs :
          /\ Filtered(before.subdirs[k], after.subdirs[k], pred)
          /\ ~(after.subdirs[k].files = <<>> /\ DOMAIN after.subdirs[k].subdirs = {})

\* C18: after filter(pred) every node holds its previous files that satisfy
\* pred, in their previous order, a subdirectory is kept iff a file in its
\* subtree satisfies pred, and no kept subdirectory is empty.
C18_FilterEveryDepth ==
    node_pred # "" => Filtered(node_before, node_after, node_pred)

\* Filtering for the files named "2": "a" is kept without files for its child
\* "a/b", and "c" is dropped.
C18_Witness ==
    /\ node_pred = "only_2"
    /\ DOMAIN node_before.subdirs = {<<97>>, <<99>>}
    /\ DOMAIN node_after.subdirs = {<<97>>}
    /\ node_before.subdirs[<<97>>].files # <<>>
    /\ node_after.subdirs[<<97>>].files = <<>>
    /\ Len(node_after.subdirs[<<97>>].subdirs[<<97, 47, 98>>].files) = 1

RECURSIVE NodesWithChain(_, _)
\* Every node at and below `node`, with the subdirectory keys that lead to it.
NodesWithChain(node, chain) ==
    {[chain |-> chain, files |-> node.files]}
    \cup UNION {NodesWithChain(node.subdirs[k], Append(chain, k)) : k \in DOMAIN node.subdirs}

\* The projection path of the entry under `key`: relative, the key of a loose
\* file and parent_archive_name()/key of an archived one; else the file's own
\* path and parent_archive_path()/key.
ProjectionPath(key, relative) ==
    LET entry == file_map[key]
    IN  IF is_archive(entry)
        THEN join(IF relative THEN Path_file_name(entry.parent_archive.path).value
                  ELSE entry.parent_archive.path, key)
        ELSE IF relative THEN key ELSE VfsFile_path(entry)

\* The directory components of a path: the components of its parent, without
\* the root directory of an absolute path.
DirComponents(path) ==
    LET comps == Components(path)
        dirs == SubSeq(comps, 1, Len(comps) - 1)
    IN  [i \in 1..Len(dirs) |-> JoinComponents(SubSeq(dirs, 1, i))]

\* The node reached from the root by the directory components of `path`; a
\* subdirectory is keyed by its whole path.
ExpectedChain(path) ==
    SelectSeq(DirComponents(path), LAMBDA d : d # <<Slash>>)

TreePlacement ==
    LET root_path == IF tree.relative THEN DataFiles ELSE <<Slash>>
        nodes == NodesWithChain(tree.roots[root_path], <<>>)
        chainOf(key) == ExpectedChain(ProjectionPath(key, tree.relative))
    IN  /\ DOMAIN tree.roots = {root_path}
        /\ \A key \in DOMAIN file_map :
              \E n \in nodes :
                  /\ n.chain = chainOf(key)
                  /\ \E i \in 1..Len(n.files) :
                        /\ n.files[i].kind = file_map[key].kind
                        /\ file_name(n.files[i]) =
                               Path_file_name(ProjectionPath(key, tree.relative))
        /\ \A n \in nodes :
              Len(n.files) = Cardinality({key \in DOMAIN file_map : chainOf(key) = n.chain})

\* The tree at hand is as tree() returned it: no filter has run on it.
Projected == tree # <<>> /\ node_before \in {<<>>, SampleNode}

\* C19: tree(relative) has one root, keyed "Data Files" or "/", and every map
\* entry has exactly one file in it, in the node reached from the root by the
\* directory components of its projection path; there is no other file.
C19_TreePlacement == Projected => TreePlacement

\* C19 for the VFSs with no archive whose file name is the root key.
C19_TreePlacement_other_names ==
    (Projected /\ \A h \in 1..Len(archive_handles) :
                       Path_file_name(archive_handles[h].path) # Some(DataFiles))
    => TreePlacement

\* The archived VfsFiles at and under a node.
ArchivedIn(node) ==
    UNION {{n.files[i] : i \in {j \in 1..Len(n.files) : is_archive(n.files[j])}} :
              n \in NodesOf(node)}

\* The archived VfsFiles a program can still reach: those of the VFS, of the
\* projected tree and of the filtered projection.
ReachableArchived ==
    (IF vfs_alive THEN {file_map[k] : k \in {x \in DOMAIN file_map : is_archive(file_map[x])}}
     ELSE {})
    \cup (IF tree = <<>> THEN {}
          ELSE UNION {ArchivedIn(tree.roots[k]) : k \in DOMAIN tree.roots})
    \cup (IF filtered = <<>> THEN {}
          ELSE UNION {ArchivedIn(filtered.roots[k]) : k \in DOMAIN filtered.roots})

\* C20: every archived VfsFile held by the VFS or by a projected tree, and
\* every handle clone a caller holds, refers to a StoredArchive that has not
\* been dropped, so whose file is still open: an archive is released only
\* once no VfsFile and no handle clone refers to it, also when the VFS was
\* dropped before the tree built from it.
C20_ArchiveOutlivesReferences ==
    /\ \A f \in ReachableArchived : f.parent_archive.slot \notin released
    /\ \A s \in Slots : handle_clones[s] > 0 => s \notin released

\* The VFS is gone, the tree built from it still holds a file of an archive
\* that is kept open, and another archive has been released.
C20_Witness ==
    /\ ~vfs_alive
    /\ tree # <<>>
    /\ \E f \in ReachableArchived : f.parent_archive.slot \notin released
    /\ released # {}

\* The Loose files under `dir` whose key is k.
LooseUnder(dir, k) ==
    {VfsFile_from(p) : p \in {q \in WalkDir(disk, dir) :
        PathEq(crate_normalize_path(crate, strip_prefix_or(q, dir)), k)}}

\* C21: a step add_directory(D) leaves every key of a file found under D
\* bound to a Loose file under D of that key, whatever the key was bound to
\* before the step: nothing, a loose file of another root, or an archived file.
C21_AppendedRootWins ==
    [][\A dir \in {RootA, RootB} :
          add_directory(dir) =>
              \A p \in WalkDir(disk, dir) :
                  LET k == crate_normalize_path(crate, strip_prefix_or(p, dir))
                  IN  get_file(crate, file_map', k) \in LooseUnder(dir, k)]_vars

\* /B was appended to a VFS built from /R and /A: the key "m/x", that an
\* opened archive stores and no file under /A has, is bound to a file under /B.
C21_Witness ==
    /\ pc = "appended"
    /\ search_dirs = <<RootR, RootA>>
    /\ InArchives(<<109, 47, 120>>)
    /\ LooseUnder(RootA, <<109, 47, 120>>) = {}
    /\ get_file(crate, file_map, <<109, 47, 120>>) \in LooseUnder(RootB, <<109, 47, 120>>)

\* C22: path() is the path the VfsFile was made with, byte for byte, and the
\* path() of every Loose entry of a built VFS is the path the walker found on
\* disk, its data root joined with the relative path as spelled on disk, under
\* the key that relative path normalizes to.
C22_PathVerbatim ==
    /\ \A p \in Probes : VfsFile_path(VfsFile_from(p)) = p
    /\ Built =>
          \A k \in DOMAIN file_map :
              is_loose(file_map[k]) =>
                  LET path == VfsFile_path(file_map[k])
                  IN  /\ path \in DOMAIN disk
                      /\ \E dir \in {RootR, RootA, RootB} :
                            /\ path \in WalkDir(disk, dir)
                            /\ path = join(dir, strip_prefix_or(path, dir))
                            /\ PathEq(crate_normalize_path(crate, strip_prefix_or(path, dir)), k)

\* The key "m/x" is bound to the loose file "/A/M/X".
C22_Witness ==
    /\ Built
    /\ get_file(crate, file_map, <<109, 47, 120>>) = VfsFile_from(join(RootA, <<77, 47, 88>>))

\* C23: vfs[s] points at the entry get_file(s) finds when the map has the key
\* normalize_path(s), and at the one static sentinel, a Loose file with the
\* empty path, otherwise; evaluating it leaves the map as it was and a
\* sentinel once made is never replaced.
C23_IndexOrSentinel ==
    /\ [](index_ret # <<>> =>
            LET found == get_file(crate, file_map, index_arg)
            IN  IF found # None
                THEN /\ index_ret.place = "file_map"
                     /\ index_ret.file = found
                ELSE /\ index_ret.place = "DEFAULT_FILE"
                     /\ index_ret.file = VfsFile_from(<<>>)
                     /\ DEFAULT_FILE = Some(index_ret.file))
    /\ [][/\ file_map' = file_map
          /\ DEFAULT_FILE # None => DEFAULT_FILE' = DEFAULT_FILE]_vars

\* "M\X" was indexed and found the entry of the key "m/x", after a miss had
\* made the sentinel.
C23_Witness ==
    /\ index_arg = <<77, 92, 88>>
    /\ index_ret # <<>>
    /\ index_ret.place = "file_map"
    /\ index_ret.key = <<109, 47, 120>>
    /\ DEFAULT_FILE # None

\* The prefixes paths_with is asked about: "" "a" "A" "a/" "a/b" "A\B" "a/1"
\* "c" "x" "da" "Data" "data files" "/a" "q" "z"
PrefixProbes ==
    { <<>>, <<97>>, <<65>>, <<97, 47>>, <<97, 47, 98>>, <<65, 92, 66>>, <<97, 47, 49>>,
      <<99>>, <<120>>, <<100, 97>>, <<68, 97, 116, 97>>,
      <<100, 97, 116, 97, 32, 102, 105, 108, 101, 115>>, <<47, 97>>, <<113>>, <<122>> }

\* The bytes of p begin the bytes of k.
BytePrefix(p, k) == Len(p) <= Len(k) /\ SubSeq(k, 1, Len(p)) = p

\* The components of p are the first components of k.
ComponentPrefix(p, k) ==
    LET cp == Components(p)
        ck == Components(k)
    IN  Len(cp) <= Len(ck) /\ \A i \in 1..Len(cp) : cp[i] = ck[i]

\* C25 as stated: paths_with(prefix) and par_paths_with(prefix) yield exactly
\* the entries whose key begins with the bytes of normalize_path(prefix), a
\* prefix ending inside a segment included.
C25_PathsWithBytePrefix ==
    (pc = "done" /\ crate = CrateNew) =>
        \A prefix \in PrefixProbes :
            LET matching == {<<k, file_map[k]>> :
                                k \in {x \in DOMAIN file_map :
                                          BytePrefix(normalize_path(prefix), x)}}
            IN  /\ paths_with(file_map, prefix) = matching
                /\ par_paths_with(file_map, prefix) = matching

\* C25, amended: paths_with(prefix) and par_paths_with(prefix) yield exactly
\* the entries whose key has the components of normalize_path(prefix) as its
\* first components; a prefix that ends inside a segment of a key does not
\* select that key.
C25_PathsWithComponentPrefix ==
    (pc = "done" /\ crate = CrateNew) =>
        \A prefix \in PrefixProbes :
            LET matching == {<<k, file_map[k]>> :
                                k \in {x \in DOMAIN file_map :
                                          ComponentPrefix(normalize_path(prefix), x)}}
            IN  /\ paths_with(file_map, prefix) = matching
                /\ par_paths_with(file_map, prefix) = matching

\* "A\B" selects the key "a/b/2", and "da" selects nothing although the key
\* "data files" begins with it.
C25_Witness ==
    /\ pc = "done"
    /\ crate = CrateNew
    /\ {<<97, 47, 98, 47, 50>>, <<100, 97, 116, 97, 32, 102, 105, 108, 101, 115>>}
         \subseteq DOMAIN file_map
    /\ paths_with(file_map, <<65, 92, 66>>)
         = {<< <<97, 47, 98, 47, 50>>, file_map[<<97, 47, 98, 47, 50>>] >>}
    /\ paths_with(file_map, <<100, 97>>) = {}

\* The nodes whose serialization is looked at: those of the trees at hand and
\* of the hand-made nodes.
SerializedNodes ==
    NodesOf(SampleNode) \cup NodesOf(ByteNamedNode)
    \cup (IF tree = <<>> THEN {} ELSE UNION {NodesOf(tree.roots[k]) : k \in DOMAIN tree.roots})
    \cup (IF node_after = <<>> THEN {} ELSE NodesOf(node_after))

\* The keys of a node's subdirectories, least first.
KeyRank(node, k) == Cardinality({o \in DOMAIN node.subdirs : PathLess(o, k)}) + 1

\* The final component of a path, as the bytes of the path hold it.
FinalComponent(path) == Components(path)[Len(Components(path))]

\* The names file_name() yields for the files of a node, in stored order; a
\* file whose path has no final component, or one that is not UTF-8, has none.
FileNames(node) ==
    LET named == SelectSeq(node.files, LAMBDA f : file_name_str(f) # None)
    IN  [i \in 1..Len(named) |-> FinalComponent(VfsFile_path(named[i]))]

StoredPaths(h) ==
    IF h.format = "TES4"
    THEN UNION {{dir.name \o <<Backslash>> \o f.name : f \in dir.files} :
                   dir \in h.archive.dirs}
    ELSE {f.name : f \in h.archive.files}

\* The entry of key k is an Archived file of the opened archive h that open()
\* finds there.
IngestedFrom(k, h) ==
    /\ is_archive(file_map[k])
    /\ file_map[k].parent_archive = h
    /\ VfsFile_open(file_map[k], disk).result = "Ok"

\* Every file the opened archives of `formats` store has its entry, and every
\* Archived entry that was opened gave a reader.
IngestedPerFile(formats) ==
    /\ \A i \in 1..Len(archive_handles) :
          archive_handles[i].format \in formats =>
              \A name \in StoredPaths(archive_handles[i]) :
                  \E k \in DOMAIN file_map :
                      /\ k = normalize_path(name)
                      /\ \E j \in i..Len(archive_handles) : IngestedFrom(k, archive_handles[j])
    /\ (open_result # <<>> /\ is_archive(vfs_file)
           /\ vfs_file.parent_archive.format \in formats)
          => open_result.result = "Ok"

\* C26: once the archives are ingested, every file stored in an opened
\* archive of any of the three families has a map entry under the key its
\* full intra-archive path normalizes to, an Archived file that open() finds
\* in its parent archive; and open() on an Archived entry succeeds.
C26_IngestionPerFile ==
    pc = "done" => IngestedPerFile({"TES3", "TES4", "FO4"})

\* C26 for the archives with flat keys.
C26_IngestionPerFile_flat_keys ==
    pc = "done" => IngestedPerFile({"TES3", "FO4"})

\* The files held in the nodes of the tree at hand.
TreeFiles ==
    UNION {{n.files[i] : i \in 1..Len(n.files)} :
              n \in UNION {NodesOf(tree.roots[k]) : k \in DOMAIN tree.roots}}

\* C27: every file held in a node of tree(relative) is the VfsFile of a map
\* entry: the same loose/archived tag, the same path() and the same parent
\* archive.
C27_TreeFileIsMapEntry ==
    Projected => \A f \in TreeFiles : \E k \in DOMAIN file_map : f = file_map[k]

\* C27 for the loose files of the tree.
C27_TreeFileIsMapEntry_loose ==
    Projected =>
        \A f \in TreeFiles : is_loose(f) => \E k \in DOMAIN file_map : f = file_map[k]

\* No data root holds two files of one key, and no archive file on disk
\* stores two names of one key.
UniqueKeys ==
    /\ \A r \in RootIdx : \A p, q \in WalkDir(disk, search_dirs[r]) :
          PathEq(KeyOf(r, p), KeyOf(r, q)) => p = q
    /\ \A a \in {x \in DOMAIN disk : disk[x].kind = "archive"} :
          \A i, j \in 1..Len(disk[a].names) :
              PathEq(crate_normalize_path(crate, disk[a].names[i]),
                     crate_normalize_path(crate, disk[a].names[j])) => i = j

\* The one Loose file the roots give the key k: the file of that key under
\* the last root that has one.
LooseOf(k) ==
    LET r == Max(RootsWith(k))
    IN  VfsFile_from(CHOOSE p \in WalkDir(disk, search_dirs[r]) : PathEq(KeyOf(r, p), k))

\* The intermediate map the disk determines.
LooseMapOfDisk == [k \in LooseKeys |-> LooseOf(k)]

\* The one Archived file the opened archives give the key k: the name of that
\* key in the last archive that stores one.
ArchivedOf(k) ==
    LET h == archive_handles[Max(HandlesWith(k))]
    IN  VfsFile_from_archive(
            h.names[CHOOSE j \in 1..Len(h.names) :
                        PathEq(crate_normalize_path(crate, h.names[j]), k)], h)

\* C28: with no key twice in one data root or in one archive, the map that
\* from_directories returns is determined by the data roots, the archive list
\* and the disk, whatever order the workers finished in: so are the
\* intermediate map and the opened archives on the way.
C28_Deterministic ==
    UniqueKeys =>
        /\ pc \in {"resolve", "ingest", "overlay", "done"} => map = LooseMapOfDisk
        /\ pc \in {"ingest", "overlay", "done"} =>
              archive_handles = from_set(crate, disk, LooseMapOfDisk, archive_list)
        /\ pc = "done" =>
              file_map = [k \in LooseKeys \cup ArchiveKeys |->
                             IF k \in LooseKeys THEN LooseOf(k) ELSE ArchivedOf(k)]

\* from_directories has returned for a disk with two files under /A, so that
\* the workers had two orders to finish in, and a key that /A and /B share.
C28_Witness ==
    /\ pc = "done"
    /\ UniqueKeys
    /\ Cardinality(WalkDir(disk, RootA)) >= 2
    /\ \E k \in DOMAIN file_map : RootsWith(k) = {2, 3}
    /\ archive_handles # <<>>

\* The keys of the files the opened archives store.
StoredFileKeys ==
    UNION {{normalize_path(name) : name \in StoredPaths(archive_handles[i])} :
              i \in 1..Len(archive_handles)}

\* The key set of the returned map is LooseKeys and the archive keys `keys`,
\* a key no data root gives is bound to an Archived file, and every opened
\* archive's own file is a Loose entry.
KeySetIs(keys) ==
    /\ DOMAIN file_map = LooseKeys \cup keys
    /\ \A k \in DOMAIN file_map : ~InLoose(k) => is_archive(file_map[k])
    /\ \A i \in 1..Len(archive_handles) :
          LET k == normalize_path(strip_prefix_or(archive_handles[i].path, RootR))
          IN  k \in DOMAIN file_map /\ is_loose(file_map[k])

\* C29: the key set of the map from_directories returns is the union of the
\* keys of the regular files under the data roots and the keys of the files
\* the opened archives store; a key only archives give is bound to an
\* Archived file, and the archive files stay in the map as Loose entries.
C29_KeySet ==
    pc = "done" => KeySetIs(StoredFileKeys)

\* C29 with the keys of the names each archive's iteration yields (file
\* names of a TES3 or FO4 archive, directory names of a TES4 archive).
C29_KeySet_iterated_names ==
    pc = "done" => KeySetIs(ArchiveKeys)

\* The copies a read into a buffer of n bytes would make from the state at
\* hand lie inside their chunk and inside the buffer, and fill the buffer
\* from its start, one after the other, up to the count the read returns.
CopiesInBounds(n) ==
    LET copies == ReadCopies(chunks, current_chunk, position, 0, n)
        r == Fo4FileReader_read(chunks, current_chunk, position, n)
    IN  /\ \A i \in 1..Len(copies) :
              /\ 0 <= copies[i].src_from
              /\ copies[i].src_from <= copies[i].src_to
              /\ copies[i].src_to <= copies[i].chunk_len
              /\ 0 <= copies[i].dst_from
              /\ copies[i].dst_from <= copies[i].dst_to
              /\ copies[i].dst_to <= n
              /\ copies[i].dst_from = (IF i = 1 THEN 0 ELSE copies[i - 1].dst_to)
        /\ r.ret = (IF copies = <<>> THEN 0 ELSE copies[Len(copies)].dst_to)

\* C30: in every state of an FO4 reader, for any chunk list (empty chunks
\* and no chunks included), when a current chunk is set the position is at
\* most its length, and every slice a read copies lies inside the chunk and
\* inside the caller's buffer; a read into a zero-length buffer returns 0 and
\* leaves chunks, current_chunk and position as they were.
C30_ReaderInBounds ==
    /\ [](IsFo4 =>
            /\ current_chunk.kind = "Some" => position <= Len(current_chunk.value)
            /\ \A n \in 0..MaxBuf : CopiesInBounds(n))
    /\ [][(IsFo4 /\ reads' = reads + 1 /\ buf_len' = 0) =>
            /\ read_ret' = 0
            /\ UNCHANGED <<chunks, current_chunk, position, delivered>>]_vars

\* Over the chunks <<1, 2>>, <<>>, <<3>> a read of 2 bytes has left the
\* position at the end of the first chunk, and a read into a zero-length
\* buffer has then returned 0.
C30_Witness ==
    /\ IsFo4
    /\ OpenedFo4File(vfs_file).chunks = << <<1, 2>>, <<>>, <<3>> >>
    /\ reads = 2
    /\ buf_len = 0
    /\ read_ret = 0
    /\ current_chunk = Some(<<1, 2>>)
    /\ position = 2
    /\ chunks = << <<>>, <<3>> >>
    /\ delivered = <<1, 2>>

============================================================================
